---- MODULE Spec2Model ----
(***************************************************************************)
(* A model of python-video-converter: the Converter orchestrator           *)
(* (converter/__init__.py), the codec and format descriptors               *)
(* (converter/codecs/*.py, converter/formats.py) and the lazily pulled     *)
(* convert / segment generators driving the external Engine (FFMpeg).      *)
(***************************************************************************)
EXTENDS Integers, Sequences, FiniteSets, TLC

VARIABLES
    op,           \* the Converter method the caller invoked
    pc,           \* position of the operation in progress (generator state)
    heap,         \* Python mapping objects: object id -> (key -> value)
    snapshot,     \* the caller's objects as they were when the call was made
    request,      \* the value the caller passed as opt / options
    options,      \* convert's local variable `options` (rebound by the copy)
    twopass,      \* the twopass argument
    pathExists,   \* os.path.exists(infile)
    info,         \* what self.ffmpeg.probe(infile) returns
    preoptlist,   \* convert's local preoptlist
    compiled,     \* parse_options calls made so far, with their results
    engineCalls,  \* Engine.convert invocations made so far, with stream status
    yielded,      \* the elements the caller has received
    err,          \* the exception the operation raised, if any
    cwd,          \* the process working directory
    cwd0,         \* the working directory before the call
    registered,   \* codec_lists and format_list: kind -> the classes registered
    defined,      \* the classes defined after the package was imported
    tables        \* the name -> class tables of the Converter constructed

vars == <<op, pc, heap, snapshot, request, options, twopass, pathExists, info,
          preoptlist, compiled, engineCalls, yielded, err, cwd, cwd0,
          registered, defined, tables>>

----------------------------------------------------------------------------
(* Bounds of the model.                                                    *)

\* the longest timecode stream one Engine.convert invocation delivers
MaxTimecodes == 2

----------------------------------------------------------------------------
(* Exact rationals n/d (d > 0), standing for Python floats.                *)

RECURSIVE GCD(_, _)
GCD(a, b) == IF b = 0 THEN a ELSE GCD(b, a % b)

Abs(i) == IF i < 0 THEN -i ELSE i

Frac(n, d) ==
    LET g == GCD(Abs(n), Abs(d))
        sg == IF d < 0 THEN -1 ELSE 1
    IN  [n |-> sg * (n \div g), d |-> sg * (d \div g)]

FLess(a, b) == a.n * b.d < b.n * a.d
FLeq(a, b) == a.n * b.d <= b.n * a.d
FAdd(a, b) == Frac(a.n * b.d + b.n * a.d, a.d * b.d)
FMul(a, b) == Frac(a.n * b.n, a.d * b.d)
\* b is not zero
FDiv(a, b) == Frac(a.n * b.d, a.d * b.n)
FZero == [n |-> 0, d |-> 1]
FHalf == [n |-> 1, d |-> 2]
FOne == [n |-> 1, d |-> 1]
\* int(x): truncation towards zero
Trunc(a) == IF a.n >= 0 THEN a.n \div a.d ELSE -((-a.n) \div a.d)

----------------------------------------------------------------------------
(* Python values.  A mapping is held by reference: s names its heap object. *)

NoneV == [t |-> "none", s |-> "", n |-> 0, d |-> 1]
StrV(x) == [t |-> "str", s |-> x, n |-> 0, d |-> 1]
IntV(i) == [t |-> "int", s |-> "", n |-> i, d |-> 1]
BoolV(b) == [t |-> "bool", s |-> "", n |-> IF b THEN 1 ELSE 0, d |-> 1]
FloatV(f) == [t |-> "float", s |-> "", n |-> f.n, d |-> f.d]
DictV(o) == [t |-> "dict", s |-> o, n |-> 0, d |-> 1]

IsDict(v) == v.t = "dict"
\* isinstance(m, int): bool is a subclass of int
IsInt(v) == v.t \in {"int", "bool"}
IsNumber(v) == v.t \in {"int", "bool", "float"}
NumOf(v) == [n |-> v.n, d |-> v.d]

\* truth value of a scalar
Truthy(v) ==
    CASE v.t = "none" -> FALSE
      [] v.t = "str" -> v.s # ""
      [] v.t \in {"int", "bool", "float"} -> v.n # 0
      [] OTHER -> TRUE

\* str(x) of a float with at most one decimal digit
FloatStr(f) ==
    LET tenths == Trunc(FMul(f, [n |-> 10, d |-> 1]))
        a == Abs(tenths)
    IN  (IF tenths < 0 THEN "-" ELSE "") \o ToString(a \div 10) \o "."
            \o ToString(a % 10)

\* str(x)
PyStr(v) ==
    CASE v.t = "none" -> "None"
      [] v.t = "str" -> v.s
      [] v.t = "int" -> ToString(v.n)
      [] v.t = "bool" -> IF v.n = 1 THEN "True" ELSE "False"
      [] v.t = "float" -> FloatStr(NumOf(v))
      [] OTHER -> "{...}"

\* the decimal numerals int() and float() are given in the modelled inputs
Numerals == {0, 1, 25, 42, 64, 300, 44100}
IsNumeral(s) == \E i \in Numerals : ToString(i) = s
NumeralValue(s) == CHOOSE i \in Numerals : ToString(i) = s

\* a result or the exception raised instead of it
Ok(v) == [exc |-> "", msg |-> "", val |-> v]
Raise(kind, msg) == [exc |-> kind, msg |-> msg, val |-> <<>>]
Raised(r) == r.exc # ""

\* typ(v) for the schema types str, int, float and bool
Coerce(typ, v) ==
    CASE typ = "str" -> Ok(StrV(PyStr(v)))
      [] typ = "bool" -> Ok(BoolV(Truthy(v)))
      [] typ = "int" ->
            CASE v.t \in {"int", "bool"} -> Ok(IntV(v.n))
              [] v.t = "float" -> Ok(IntV(Trunc(NumOf(v))))
              [] v.t = "str" ->
                    IF IsNumeral(v.s) THEN Ok(IntV(NumeralValue(v.s)))
                    ELSE Raise("ValueError", "invalid literal for int()")
              [] OTHER -> Raise("TypeError", "int() argument")
      [] typ = "float" ->
            CASE v.t \in {"int", "bool", "float"} -> Ok(FloatV(NumOf(v)))
              [] v.t = "str" ->
                    IF IsNumeral(v.s)
                    THEN Ok(FloatV([n |-> NumeralValue(v.s), d |-> 1]))
                    ELSE Raise("ValueError", "could not convert to float")
              [] OTHER -> Raise("TypeError", "float() argument")

\* F applied to the value of v: a local name bound once, as an assignment
\* binds it, however often F reads it
Bind(v, F(_)) == CHOOSE r \in {F(x) : x \in {v}} : TRUE

\* the empty mapping {}
EmptyDict == [k \in {} |-> NoneV]
Has(dict, k) == k \in DOMAIN dict
\* dict[k] = v
Put(dict, k, v) == (k :> v) @@ dict
\* del dict[k]
Del(dict, k) == Bind(dict, LAMBDA m : [x \in DOMAIN m \ {k} |-> m[x]])

\* a filter that keeps a schema key whose value does not coerce, uncoerced
safe_options_keep_uncoerced(schema, opts) ==
    Bind(opts, LAMBDA o :
        [k \in {x \in DOMAIN o : x \in DOMAIN schema} |->
            IF Raised(Coerce(schema[k], o[k])) THEN o[k]
            ELSE Coerce(schema[k], o[k]).val])

\* BaseCodec.safe_options / BaseFormat.safe_options: the schema's keys whose
\* value coerces, with the coerced value; a failing coercion drops the key
safe_options(schema, opts) ==
    Bind(opts, LAMBDA o :
        LET kept == {k \in DOMAIN o :
                        k \in DOMAIN schema /\ ~Raised(Coerce(schema[k], o[k]))}
        IN  [k \in kept |-> Coerce(schema[k], o[k]).val])

----------------------------------------------------------------------------
(* Format descriptors (converter/formats.py).                              *)

BaseFormat_format_options == [format |-> "str"]
FastStart_format_options == [format |-> "str", faststart |-> "bool"]

FormatClass(cls, name, ffname, schema) ==
    [cls |-> cls, format_name |-> name, ffmpeg_format_name |-> ffname,
     format_options |-> schema]

\* the classes MetaBaseFormat has appended to format_list, in declaration order
format_list == <<
    FormatClass("OggFormat", "ogg", "ogg", BaseFormat_format_options),
    FormatClass("AviFormat", "avi", "avi", BaseFormat_format_options),
    FormatClass("MkvFormat", "mkv", "matroska", BaseFormat_format_options),
    FormatClass("WebmFormat", "webm", "webm", BaseFormat_format_options),
    FormatClass("FlvFormat", "flv", "flv", BaseFormat_format_options),
    FormatClass("MovFormat", "mov", "mov", FastStart_format_options),
    FormatClass("Mp4Format", "mp4", "mp4", FastStart_format_options),
    FormatClass("MpegFormat", "mpg", "mpegts", BaseFormat_format_options),
    FormatClass("Mp3Format", "mp3", "mp3", BaseFormat_format_options),
    FormatClass("WmvFormat", "wmv", "msmpeg4", BaseFormat_format_options) >>

\* what _format_specific_parse_options returns: Mp4Format returns a flag list
\* in place of the safe mapping, every other class returns safe itself
format_specific_parse_options(cls, safe) ==
    IF cls = "Mp4Format"
    THEN [list |-> IF Has(safe, "faststart") /\ Truthy(safe["faststart"])
                   THEN <<"-movflags", "faststart">> ELSE <<>>]
    ELSE [dict |-> safe]

\* no class overrides _format_specific_produce_ffmpeg_list
format_specific_produce_ffmpeg_list(cls, safe) == <<>>

\* a format compiler that emits the public name in place of the engine's
BaseFormat_parse_options_public_name(fmt, opt) ==
    LET safe == safe_options(fmt.format_options, opt)
    IN  IF ~Has(safe, "format") \/ safe["format"] # StrV(fmt.format_name)
        THEN Raise("ValueError", "invalid Format format")
        ELSE Ok(<<"-f", fmt.format_name>>)

\* BaseFormat.parse_options
BaseFormat_parse_options(fmt, opt) ==
    LET safe == safe_options(fmt.format_options, opt)
    IN  IF ~Has(safe, "format") \/ safe["format"] # StrV(fmt.format_name)
        THEN Raise("ValueError", "invalid Format format")
        ELSE Ok(<<"-f", fmt.ffmpeg_format_name>>
                \o format_specific_produce_ffmpeg_list(fmt.cls,
                       format_specific_parse_options(fmt.cls, safe)))

----------------------------------------------------------------------------
(* Codec descriptors (converter/codecs/__init__.py).                       *)

CodecClass(cls, name, ffname, schema) ==
    [cls |-> cls, codec_name |-> name, ffmpeg_codec_name |-> ffname,
     encoder_options |-> schema]

\* a check that asks only for the presence of the 'codec' key
BaseCodec_parse_options_key_only(codec, opt) ==
    IF ~Has(opt, "codec")
    THEN Raise("ValueError", "invalid codec name")
    ELSE Ok(<<>>)

\* BaseCodec.parse_options: the declared codec must be the descriptor's
BaseCodec_parse_options(codec, opt) ==
    IF ~Has(opt, "codec") \/ opt["codec"] # codec.codec_name
    THEN Raise("ValueError", "invalid codec name")
    ELSE Ok(<<>>)

\* a validation that clamps an out-of-range value to the nearer boundary
DropOutside_clamped(safe, k, lo, hi) ==
    Bind(safe, LAMBDA s :
        IF ~Has(s, k) THEN s
        ELSE IF FLess(NumOf(s[k]), [n |-> lo, d |-> 1]) THEN Put(s, k, IntV(lo))
        ELSE IF FLess([n |-> hi, d |-> 1], NumOf(s[k])) THEN Put(s, k, IntV(hi))
        ELSE s)

\* `if k in safe and (safe[k] < lo or safe[k] > hi): del safe[k]`
DropOutside(safe, k, lo, hi) ==
    Bind(safe, LAMBDA s :
        IF Has(s, k)
           /\ (\/ FLess(NumOf(s[k]), [n |-> lo, d |-> 1])
               \/ FLess([n |-> hi, d |-> 1], NumOf(s[k])))
        THEN Del(s, k) ELSE s)

\* `if k in safe and safe[k] < lo: del safe[k]`
DropBelow(safe, k, lo) ==
    Bind(safe, LAMBDA s :
        IF Has(s, k) /\ FLess(NumOf(s[k]), [n |-> lo, d |-> 1])
        THEN Del(s, k) ELSE s)

\* `if k in safe: optlist.extend([flag, str(safe[k]) + suffix])`
FlagOf(safe, k, flag, suffix) ==
    IF Has(safe, k) THEN <<flag, PyStr(safe[k]) \o suffix>> ELSE <<>>

----------------------------------------------------------------------------
(* Audio codecs (converter/codecs/audio.py).                               *)

AudioCodec_encoder_options ==
    [codec |-> "str", channels |-> "int", bitrate |-> "int",
     samplerate |-> "int"]

AudioQuality_encoder_options(typ) == Put(AudioCodec_encoder_options, "quality", typ)

\* codec_lists["audio"], in declaration order
codec_list_audio == <<
    CodecClass("AudioNullCodec", NoneV, "", AudioCodec_encoder_options),
    CodecClass("AudioCopyCodec", StrV("copy"), "", AudioCodec_encoder_options),
    CodecClass("VorbisCodec", StrV("vorbis"), "libvorbis",
               AudioQuality_encoder_options("int")),
    CodecClass("AacCodec", StrV("aac"), "aac",
               AudioQuality_encoder_options("float")),
    CodecClass("FdkAacCodec", StrV("libfdk_aac"), "libfdk_aac",
               AudioQuality_encoder_options("int")),
    CodecClass("Ac3Codec", StrV("ac3"), "ac3", AudioCodec_encoder_options),
    CodecClass("FlacCodec", StrV("flac"), "flac", AudioCodec_encoder_options),
    CodecClass("DtsCodec", StrV("dts"), "dts", AudioCodec_encoder_options),
    CodecClass("Mp3Codec", StrV("mp3"), "libmp3lame",
               AudioQuality_encoder_options("int")),
    CodecClass("Mp2Codec", StrV("mp2"), "mp2", AudioCodec_encoder_options),
    CodecClass("WmaCodec", StrV("wma"), "wmav2", AudioCodec_encoder_options) >>

audio_codec_specific_parse_options(cls, safe) ==
    CASE cls = "AacCodec" -> DropOutside(safe, "quality", 0, 9)
      [] cls = "FdkAacCodec" -> DropOutside(safe, "quality", 1, 5)
      [] cls = "Mp3Codec" -> DropOutside(safe, "quality", 0, 9)
      [] OTHER -> safe

audio_codec_specific_produce_ffmpeg_list(cls, safe) ==
    CASE cls = "VorbisCodec" -> FlagOf(safe, "quality", "-qscale:a", "")
      [] cls = "AacCodec" ->
            <<"-strict", "experimental">> \o FlagOf(safe, "quality", "-qscale:a", "")
      [] cls = "FdkAacCodec" -> FlagOf(safe, "quality", "-vbr", "")
      [] cls = "Mp3Codec" -> FlagOf(safe, "quality", "-qscale:a", "")
      [] OTHER -> <<>>

\* AudioCodec.parse_options from `safe = self.safe_options(opt)` on
AudioCodec_ffmpeg_list(codec, safe3) ==
    Bind(audio_codec_specific_parse_options(codec.cls, safe3), LAMBDA safe :
        Ok(<<"-acodec", codec.ffmpeg_codec_name>>
           \o FlagOf(safe, "channels", "-ac", "")
           \o FlagOf(safe, "bitrate", "-ab", "k")
           \o FlagOf(safe, "samplerate", "-ar", "")
           \o audio_codec_specific_produce_ffmpeg_list(codec.cls, safe)))

\* AudioCodec.parse_options, and its overrides in the null and copy codecs
AudioCodec_parse_options(codec, opt) ==
    CASE codec.cls = "AudioNullCodec" -> Ok(<<"-an">>)
      [] codec.cls = "AudioCopyCodec" -> Ok(<<"-acodec", "copy">>)
      [] OTHER ->
            IF Raised(BaseCodec_parse_options(codec, opt))
            THEN BaseCodec_parse_options(codec, opt)
            ELSE AudioCodec_ffmpeg_list(codec,
                    DropOutside(
                        DropOutside(
                            DropOutside(safe_options(codec.encoder_options, opt),
                                        "channels", 1, 12),
                            "bitrate", 8, 512),
                        "samplerate", 1000, 50000))

----------------------------------------------------------------------------
(* Subtitle codecs (converter/codecs/subtitle.py).                         *)

SubtitleCodec_encoder_options ==
    [codec |-> "str", language |-> "str", forced |-> "int", default |-> "int"]

\* codec_lists["subtitle"], in declaration order
codec_list_subtitle == <<
    CodecClass("SubtitleNullCodec", NoneV, "", SubtitleCodec_encoder_options),
    CodecClass("SubtitleCopyCodec", StrV("copy"), "", SubtitleCodec_encoder_options),
    CodecClass("MOVTextCodec", StrV("mov_text"), "mov_text",
               SubtitleCodec_encoder_options),
    CodecClass("SSA", StrV("ass"), "ass", SubtitleCodec_encoder_options),
    CodecClass("SubRip", StrV("subrip"), "subrip", SubtitleCodec_encoder_options),
    CodecClass("DVBSub", StrV("dvbsub"), "dvbsub", SubtitleCodec_encoder_options),
    CodecClass("DVDSub", StrV("dvdsub"), "dvdsub", SubtitleCodec_encoder_options) >>

\* `if 'language' in safe and len(safe['language']) > 3: del safe['language']`
DropLongLanguage(safe) ==
    Bind(safe, LAMBDA s :
        IF Has(s, "language") /\ Len(s["language"].s) > 3
        THEN Del(s, "language") ELSE s)

\* a compiler that emits the language it validated
SubtitleCodec_parse_options_language(codec, opt) ==
    CASE codec.cls = "SubtitleNullCodec" -> Ok(<<"-sn">>)
      [] codec.cls = "SubtitleCopyCodec" -> Ok(<<"-scodec", "copy">>)
      [] OTHER ->
            IF Raised(BaseCodec_parse_options(codec, opt))
            THEN BaseCodec_parse_options(codec, opt)
            ELSE Bind(DropLongLanguage(
                        DropOutside(
                            DropOutside(safe_options(codec.encoder_options, opt),
                                        "forced", 0, 1),
                            "default", 0, 1)),
                      LAMBDA safe : Ok(<<"-scodec", codec.ffmpeg_codec_name>>
                                       \o FlagOf(safe, "language", "-language", "")))

\* SubtitleCodec.parse_options, and its overrides in the null and copy codecs;
\* no subtitle class overrides _codec_specific_produce_ffmpeg_list, and the
\* base class's list does not read safe
SubtitleCodec_parse_options(codec, opt) ==
    CASE codec.cls = "SubtitleNullCodec" -> Ok(<<"-sn">>)
      [] codec.cls = "SubtitleCopyCodec" -> Ok(<<"-scodec", "copy">>)
      [] OTHER ->
            IF Raised(BaseCodec_parse_options(codec, opt))
            THEN BaseCodec_parse_options(codec, opt)
            ELSE Bind(DropLongLanguage(
                        DropOutside(
                            DropOutside(safe_options(codec.encoder_options, opt),
                                        "forced", 0, 1),
                            "default", 0, 1)),
                      LAMBDA safe : Ok(<<"-scodec", codec.ffmpeg_codec_name>>))

----------------------------------------------------------------------------
(* Video codecs (converter/codecs/video.py).                               *)

VideoCodec_encoder_options ==
    [codec |-> "str", pix_fmt |-> "str", bitrate |-> "int",
     max_bitrate |-> "int", fps |-> "int", keyframe_interval |-> "int",
     width |-> "int", height |-> "int", mode |-> "str", src_width |-> "int",
     src_height |-> "int", display_aspect_ratio |-> "float",
     sample_aspect_ratio |-> "float", rotate |-> "str"]

\* encoder_options = VideoCodec.encoder_options.copy(); encoder_options.update(more)
VideoCodec_encoder_options_update(more) ==
    [k \in DOMAIN VideoCodec_encoder_options \cup DOMAIN more |->
        IF k \in DOMAIN more THEN more[k] ELSE VideoCodec_encoder_options[k]]

\* codec_lists["video"], in declaration order (the abstract MpegCodec is
\* removed from the list when its first subclass is declared)
codec_list_video == <<
    CodecClass("VideoNullCodec", NoneV, "", VideoCodec_encoder_options),
    CodecClass("VideoCopyCodec", StrV("copy"), "", VideoCodec_encoder_options),
    CodecClass("TheoraCodec", StrV("theora"), "libtheora",
               VideoCodec_encoder_options_update([quality |-> "int"])),
    CodecClass("H264Codec", StrV("h264"), "libx264",
               VideoCodec_encoder_options_update(
                   [preset |-> "str", quality |-> "int", profile |-> "str",
                    level |-> "str", tune |-> "str"])),
    CodecClass("VaapiH264Codec", StrV("h264_vaapi"), "h264_vaapi",
               VideoCodec_encoder_options_update(
                   [preset |-> "str", quality |-> "int", profile |-> "str",
                    level |-> "str"])),
    CodecClass("DivxCodec", StrV("divx"), "mpeg4",
               VideoCodec_encoder_options_update([quality |-> "int"])),
    CodecClass("Vp8Codec", StrV("vp8"), "libvpx",
               VideoCodec_encoder_options_update(
                   [quality |-> "int", threads |-> "int"])),
    CodecClass("Vp9Codec", StrV("vp9"), "libvpx-vp9",
               VideoCodec_encoder_options_update(
                   ("deadline" :> "str") @@ ("cpu-used" :> "int"))),
    CodecClass("H263Codec", StrV("h263"), "h263", VideoCodec_encoder_options),
    CodecClass("FlvCodec", StrV("flv"), "flv", VideoCodec_encoder_options),
    CodecClass("Mpeg1Codec", StrV("mpeg1"), "mpeg1video",
               VideoCodec_encoder_options_update([quality |-> "int"])),
    CodecClass("Mpeg2Codec", StrV("mpeg2"), "mpeg2video",
               VideoCodec_encoder_options_update([quality |-> "int"])),
    CodecClass("WmvCodec", StrV("wmv"), "msmpeg4",
               VideoCodec_encoder_options_update([quality |-> "int"])) >>

\* VideoCodec.formats_supported
formats_supported == {
    "yuv420p", "yuyv422", "rgb24", "bgr24", "yuv422p", "yuv444p",
    "yuv410p", "yuv411p", "gray", "monow", "monob", "pal8", "yuvj420p",
    "yuvj422p", "yuvj444p", "xvmcmc", "xvmcidct", "uyvy422", "uyyvyy411",
    "bgr8", "bgr4", "bgr4_byte", "rgb8", "rgb4", "rgb4_byte", "nv12",
    "nv21", "argb", "rgba", "abgr", "bgra", "gray16be", "gray16le",
    "yuv440p", "yuvj440p", "yuva420p", "vdpau_h264", "vdpau_mpeg1",
    "vdpau_mpeg2", "vdpau_wmv3", "vdpau_vc1", "rgb48be", "rgb48le",
    "rgb565be", "rgb565le", "rgb555be", "rgb555le", "bgr565be", "bgr565le",
    "bgr555be", "bgr555le", "vaapi_moco", "vaapi_idct", "vaapi_vld",
    "yuv420p16le", "yuv420p16be", "yuv422p16le2", "yuv422p16be2",
    "yuv444p16le", "yuv444p16be", "vdpau_mpeg4", "dxva2_vld", "rgb444le",
    "rgb444be", "bgr444le", "bgr444be", "ya8", "bgr48be", "bgr48le",
    "yuv420p9be", "yuv420p9le", "yuv420p10be", "yuv420p10le",
    "yuv422p10be", "yuv422p10le", "yuv444p9be", "yuv444p9le",
    "yuv444p10be0", "yuv444p10le0", "yuv422p9be", "yuv422p9le", "vda_vld",
    "gbrp", "gbrp9be", "gbrp9le", "gbrp10be0", "gbrp10le0", "gbrp16be8",
    "gbrp16le8", "yuva420p9be", "yuva420p9le", "yuva422p9be",
    "yuva422p9le", "yuva444p9be", "yuva444p9le", "yuva420p10be",
    "yuva420p10le", "yuva422p10be", "yuva422p10le", "yuva444p10be",
    "yuva444p10le", "yuva420p16be", "yuva420p16le", "yuva422p16be",
    "yuva422p16le", "yuva444p16be", "yuva444p16le", "vdpau", "xyz12le6",
    "xyz12be6", "nv16", "nv20le", "nv20be", "yvyu422", "vda", "ya16be",
    "ya16le", "qsv", "mmal", "d3d11va_vld", "rgba64be", "rgba64le",
    "bgra64be", "bgra64le", "0rgb", "rgb0", "0bgr", "bgr0", "yuva444p",
    "yuva422p", "yuv420p12be", "yuv420p12le", "yuv420p14be", "yuv420p14le",
    "yuv422p12be", "yuv422p12le", "yuv422p14be", "yuv422p14le",
    "yuv444p12be6", "yuv444p12le6", "yuv444p14be", "yuv444p14le",
    "gbrp12be6", "gbrp12le6", "gbrp14be2", "gbrp14le2", "gbrap2",
    "gbrap16be", "gbrap16le", "yuvj411p", "bayer_bggr8", "bayer_rggb8",
    "bayer_gbrg8", "bayer_grbg8", "bayer_bggr16le", "bayer_bggr16be",
    "bayer_rggb16le", "bayer_rggb16be", "bayer_gbrg16le", "bayer_gbrg16be",
    "bayer_grbg16le", "bayer_grbg16be", "yuv440p10le", "yuv440p10be",
    "yuv440p12le", "yuv440p12be", "ayuv64le", "ayuv64be",
    "videotoolbox_vld"}

\* round(x): to the nearest integer, a tie to the even one
Round(a) ==
    LET fl == (2 * a.n) \div (2 * a.d)
        rem == FAdd(a, [n |-> -fl, d |-> 1])
    IN  CASE FLess(rem, FHalf) -> fl
          [] FLess(FHalf, rem) -> fl + 1
          [] OTHER -> IF fl % 2 = 0 THEN fl ELSE fl + 1

\* '%d' % x
FmtD(a) == ToString(Trunc(a))
FmtInt(i) == ToString(i)

\* a (w, h, filters) triple, or the AssertionError raised instead
Geometry(w, h, filters) == Ok([w |-> w, h |-> h, filters |-> filters])

\* a geometry engine whose pad filter puts the whole margin on one side
aspect_corrections_uncentred(sw, sh, w, h, sar, rotate, mode) ==
    IF ~Truthy(sw) \/ ~Truthy(sh) THEN Geometry(w, h, NoneV)
    ELSE
    LET aspect0 == Frac(sw.n, sh.n)
        aspect1 == IF Truthy(sar) THEN FDiv(aspect0, NumOf(sar)) ELSE aspect0
        aspect == IF rotate \in {StrV("90"), StrV("270")}
                  THEN FDiv(FOne, aspect1) ELSE aspect1
        W == [n |-> w.n, d |-> 1]
        H == [n |-> h.n, d |-> 1]
    IN  IF ~Truthy(w) /\ ~Truthy(h) THEN Geometry(w, h, NoneV)
        ELSE IF Truthy(w) /\ ~Truthy(h)
        THEN Geometry(w, IntV(Trunc(FDiv(W, aspect))), NoneV)
        ELSE IF Truthy(h) /\ ~Truthy(w)
        THEN Geometry(IntV(Trunc(FMul(aspect, H))), h, NoneV)
        ELSE
        LET target_aspect == FDiv(W, H)
            h0 == Trunc(FDiv(W, aspect))
            w0 == Trunc(FMul(H, aspect))
        IN  IF Trunc(FMul(aspect, H)) = w.n THEN Geometry(w, h, NoneV)
            ELSE IF mode = "stretch" THEN Geometry(w, h, NoneV)
            ELSE IF mode = "crop" /\ FLess(aspect, target_aspect)
            THEN IF ~(h0 > h.n) THEN Raise("AssertionError", "h0 > h")
                 ELSE Geometry(w, IntV(h0), StrV(
                        "crop=" \o FmtInt(w.n) \o ":" \o FmtInt(h.n)
                        \o ":0:" \o FmtD(Frac(h0 - h.n, 2))))
            ELSE IF mode = "crop"
            THEN IF ~(w0 > w.n) THEN Raise("AssertionError", "w0 > w")
                 ELSE Geometry(IntV(w0), h, StrV(
                        "crop=" \o FmtInt(w.n) \o ":" \o FmtInt(h.n)
                        \o ":" \o FmtD(Frac(w0 - w.n, 2)) \o ":0"))
            ELSE IF mode = "pad" /\ FLess(target_aspect, aspect)
            THEN IF ~(h0 < h.n) THEN Raise("AssertionError", "h1 < h")
                 ELSE Geometry(w, IntV(h0), StrV(
                        "pad=" \o FmtInt(w.n) \o ":" \o FmtInt(h.n)
                        \o ":0:" \o FmtInt(h.n - h0)))
            ELSE IF mode = "pad"
            THEN IF ~(w0 < w.n) THEN Raise("AssertionError", "w1 < w")
                 ELSE Geometry(IntV(w0), h, StrV(
                        "pad=" \o FmtInt(w.n) \o ":" \o FmtInt(h.n)
                        \o ":" \o FmtInt(w.n - w0) \o ":0"))
            ELSE Raise("AssertionError", mode)

\* VideoCodec._aspect_corrections; w, h, sw, sh are None or an int, sar is
\* None or a float, rotate is None or a str
aspect_corrections(sw, sh, w, h, sar, rotate, mode) ==
    IF ~Truthy(sw) \/ ~Truthy(sh) THEN Geometry(w, h, NoneV)
    ELSE
    LET aspect0 == Frac(sw.n, sh.n)
        aspect1 == IF Truthy(sar) THEN FDiv(aspect0, NumOf(sar)) ELSE aspect0
        aspect == IF rotate \in {StrV("90"), StrV("270")}
                  THEN FDiv(FOne, aspect1) ELSE aspect1
        W == [n |-> w.n, d |-> 1]
        H == [n |-> h.n, d |-> 1]
    IN  IF ~Truthy(w) /\ ~Truthy(h) THEN Geometry(w, h, NoneV)
        ELSE IF Truthy(w) /\ ~Truthy(h)
        THEN Geometry(w, IntV(Trunc(FDiv(W, aspect))), NoneV)
        ELSE IF Truthy(h) /\ ~Truthy(w)
        THEN Geometry(IntV(Trunc(FMul(aspect, H))), h, NoneV)
        ELSE
        LET target_aspect == FDiv(W, H)
            h0 == Trunc(FDiv(W, aspect))
            w0 == Trunc(FMul(H, aspect))
        IN  IF Trunc(FMul(aspect, H)) = w.n THEN Geometry(w, h, NoneV)
            ELSE IF mode = "stretch" THEN Geometry(w, h, NoneV)
            ELSE IF mode = "crop" /\ FLess(aspect, target_aspect)
            THEN IF ~(h0 > h.n) THEN Raise("AssertionError", "h0 > h")
                 ELSE Geometry(w, IntV(h0), StrV(
                        "crop=" \o FmtInt(w.n) \o ":" \o FmtInt(h.n)
                        \o ":0:" \o FmtD(Frac(h0 - h.n, 2))))
            ELSE IF mode = "crop"
            THEN IF ~(w0 > w.n) THEN Raise("AssertionError", "w0 > w")
                 ELSE Geometry(IntV(w0), h, StrV(
                        "crop=" \o FmtInt(w.n) \o ":" \o FmtInt(h.n)
                        \o ":" \o FmtD(Frac(w0 - w.n, 2)) \o ":0"))
            ELSE IF mode = "pad" /\ FLess(target_aspect, aspect)
            THEN IF ~(h0 < h.n) THEN Raise("AssertionError", "h1 < h")
                 ELSE Geometry(w, IntV(h0), StrV(
                        "pad=" \o FmtInt(w.n) \o ":" \o FmtInt(h.n)
                        \o ":0:" \o FmtD(Frac(h.n - h0, 2))))
            ELSE IF mode = "pad"
            THEN IF ~(w0 < w.n) THEN Raise("AssertionError", "w1 < w")
                 ELSE Geometry(IntV(w0), h, StrV(
                        "pad=" \o FmtInt(w.n) \o ":" \o FmtInt(h.n)
                        \o ":" \o FmtD(Frac(w.n - w0, 2)) \o ":0"))
            ELSE Raise("AssertionError", mode)

\* dict.get(k)
Get(dict, k) == IF Has(dict, k) THEN dict[k] ELSE NoneV

\* `if 'pix_fmt' in safe and safe['pix_fmt'] in self.formats_supported: del safe['pix_fmt']`
DropPixFmt(safe) ==
    Bind(safe, LAMBDA s :
        IF Has(s, "pix_fmt") /\ s["pix_fmt"].s \in formats_supported
        THEN Del(s, "pix_fmt") ELSE s)

\* the width read from safe: None when out of 16..4000, else made even
TargetWidth(safe) ==
    IF ~Has(safe, "width") THEN NoneV
    ELSE LET w == safe["width"].n
         IN  IF w < 16 \/ w > 4000 THEN NoneV ELSE IntV(w - (w % 2))

\* the height read from safe: None when out of 16..3000, else divided by the
\* sample aspect ratio (when there is one) and made even
TargetHeight(safe, sar) ==
    IF ~Has(safe, "height") THEN NoneV
    ELSE LET h == safe["height"].n
             h1 == IF Truthy(sar)
                   THEN Round(FDiv([n |-> h, d |-> 1], NumOf(sar))) ELSE h
         IN  IF h < 16 \/ h > 3000 THEN NoneV ELSE IntV(h1 - (h1 % 2))

MpegCodecClasses == {"Mpeg1Codec", "Mpeg2Codec"}

\* a hook that puts the aspect filter after the crop or pad filter
MpegAspectFilter_last(safe) ==
    Bind(safe, LAMBDA s :
        IF Truthy(s["width"]) /\ Truthy(s["height"])
        THEN LET tmp == "aspect=" \o FmtInt(s["width"].n) \o ":"
                            \o FmtInt(s["height"].n)
             IN  Put(s, "aspect_filters",
                     IF s["aspect_filters"] = NoneV THEN StrV(tmp)
                     ELSE StrV(s["aspect_filters"].s \o "," \o tmp))
        ELSE s)

\* MpegCodec._codec_specific_parse_options: the aspect filter goes first
MpegAspectFilter(safe) ==
    Bind(safe, LAMBDA s :
        IF Truthy(s["width"]) /\ Truthy(s["height"])
        THEN LET tmp == "aspect=" \o FmtInt(s["width"].n) \o ":"
                            \o FmtInt(s["height"].n)
             IN  Put(s, "aspect_filters",
                     IF s["aspect_filters"] = NoneV THEN StrV(tmp)
                     ELSE StrV(tmp \o "," \o s["aspect_filters"].s))
        ELSE s)

video_codec_specific_parse_options(cls, safe) ==
    CASE cls = "TheoraCodec" -> DropOutside(safe, "quality", 0, 10)
      [] cls \in {"H264Codec", "VaapiH264Codec"} ->
            DropOutside(safe, "quality", 0, 51)
      [] cls \in {"DivxCodec", "WmvCodec"} -> DropOutside(safe, "quality", 1, 31)
      [] cls = "Vp8Codec" ->
            DropBelow(DropOutside(safe, "quality", 0, 63), "threads", 1)
      [] cls = "Vp9Codec" -> DropBelow(safe, "cpu-used", 0)
      [] cls \in MpegCodecClasses ->
            DropOutside(MpegAspectFilter(safe), "quality", 1, 31)
      [] OTHER -> safe

video_codec_specific_produce_ffmpeg_list(cls, safe) ==
    CASE cls \in {"TheoraCodec", "DivxCodec", "WmvCodec"} \cup MpegCodecClasses ->
            FlagOf(safe, "quality", "-qscale:v", "")
      [] cls = "H264Codec" ->
            FlagOf(safe, "preset", "-preset", "")
            \o FlagOf(safe, "quality", "-crf", "")
            \o FlagOf(safe, "profile", "-profile:v", "")
            \o FlagOf(safe, "level", "-level", "")
            \o FlagOf(safe, "tune", "-tune", "")
      [] cls = "VaapiH264Codec" ->
            <<"-vf", "format=nv12|vaapi,hwupload">>
            \o FlagOf(safe, "preset", "-preset", "")
            \o FlagOf(safe, "quality", "-crf", "")
            \o FlagOf(safe, "profile", "-profile:v", "")
            \o FlagOf(safe, "level", "-level", "")
      [] cls = "Vp8Codec" ->
            (IF Has(safe, "quality")
             THEN FlagOf(safe, "quality", "-crf", "")
                  \o FlagOf(safe, "max_bitrate", "-vb", "k")
             ELSE <<>>)
            \o FlagOf(safe, "threads", "-threads", "")
      [] cls = "Vp9Codec" ->
            FlagOf(safe, "deadline", "-deadline", "")
            \o FlagOf(safe, "cpu-used", "-cpu-used", "")
      [] OTHER -> <<>>

\* a flag list whose -aspect is read from the corrected size, so that it
\* goes with every -s
VideoCodec_ffmpeg_list_aspect_of_result(codec, safe, ow, oh) ==
    LET fw == safe["width"]
        fh == safe["height"]
        filters == safe["aspect_filters"]
    IN  Ok(<<"-vcodec", codec.ffmpeg_codec_name>>
           \o <<"-pix_fmt", IF Has(safe, "pix_fmt")
                            THEN PyStr(safe["pix_fmt"]) ELSE "yuv420p">>
           \o FlagOf(safe, "fps", "-r", "")
           \o FlagOf(safe, "keyframe_interval", "-g", "")
           \o FlagOf(safe, "bitrate", "-vb", "k")
           \o (IF Has(safe, "max_bitrate")
               THEN <<"-maxrate", PyStr(safe["max_bitrate"]) \o "k",
                      "-bufsize", PyStr(safe["max_bitrate"]) \o "k">>
               ELSE <<>>)
           \o (IF Truthy(fw) /\ Truthy(fh)
               THEN <<"-s", FmtInt(fw.n) \o "x" \o FmtInt(fh.n)>>
                    \o <<"-aspect", FmtInt(fw.n) \o ":" \o FmtInt(fh.n)>>
               ELSE <<>>)
           \o (IF Truthy(filters) THEN <<"-vf", filters.s>> ELSE <<>>)
           \o video_codec_specific_produce_ffmpeg_list(codec.cls, safe))

\* VideoCodec.parse_options, lines 233-263: the flag list read from safe; ow and
\* oh are the target size as it was before the aspect corrections
VideoCodec_ffmpeg_list(codec, safe, ow, oh) ==
    LET fw == safe["width"]
        fh == safe["height"]
        filters == safe["aspect_filters"]
    IN  Ok(<<"-vcodec", codec.ffmpeg_codec_name>>
           \o <<"-pix_fmt", IF Has(safe, "pix_fmt")
                            THEN PyStr(safe["pix_fmt"]) ELSE "yuv420p">>
           \o FlagOf(safe, "fps", "-r", "")
           \o FlagOf(safe, "keyframe_interval", "-g", "")
           \o FlagOf(safe, "bitrate", "-vb", "k")
           \o (IF Has(safe, "max_bitrate")
               THEN <<"-maxrate", PyStr(safe["max_bitrate"]) \o "k",
                      "-bufsize", PyStr(safe["max_bitrate"]) \o "k">>
               ELSE <<>>)
           \o (IF Truthy(fw) /\ Truthy(fh)
               THEN <<"-s", FmtInt(fw.n) \o "x" \o FmtInt(fh.n)>>
                    \o (IF Truthy(ow) /\ Truthy(oh)
                        THEN <<"-aspect", FmtInt(ow.n) \o ":" \o FmtInt(oh.n)>>
                        ELSE <<>>)
               ELSE <<>>)
           \o (IF Truthy(filters) THEN <<"-vf", filters.s>> ELSE <<>>)
           \o video_codec_specific_produce_ffmpeg_list(codec.cls, safe))

\* lines 225-231: the corrected geometry is written back into safe
VideoCodec_store_geometry(safe5, geo) ==
    LET safe6 == ("width" :> geo.w) @@ ("height" :> geo.h)
                    @@ ("aspect_filters" :> geo.filters) @@ safe5
    IN  IF Truthy(geo.w) /\ Truthy(geo.h)
        THEN Put(safe6, "aspect",
                 StrV(FmtInt(geo.w.n) \o ":" \o FmtInt(geo.h.n)))
        ELSE safe6

\* a compiler that hands the request's mode to the geometry engine as it is
VideoCodec_geometry_raw_mode(safe5) ==
    LET sar == Get(safe5, "sample_aspect_ratio")
        rotate == Get(safe5, "rotate")
        swap == rotate \in {StrV("90"), StrV("270")}
        w1 == TargetWidth(safe5)
        h1 == TargetHeight(safe5, sar)
        w == IF swap THEN h1 ELSE w1
        h == IF swap THEN w1 ELSE h1
        known == /\ Has(safe5, "src_width") /\ Has(safe5, "src_height")
                 /\ Truthy(safe5["src_width"]) /\ Truthy(safe5["src_height"])
        sw == IF known THEN safe5["src_width"] ELSE NoneV
        sh == IF known THEN safe5["src_height"] ELSE NoneV
        mode == IF Has(safe5, "mode") THEN safe5["mode"].s ELSE "stretch"
    IN  [ow |-> w, oh |-> h,
         res |-> aspect_corrections(sw, sh, w, h, sar, rotate, mode)]

\* lines 185-223: the target and source geometry read from safe, and the
\* corrected geometry (or the AssertionError) at `res`
VideoCodec_geometry(safe5) ==
    LET sar == Get(safe5, "sample_aspect_ratio")
        rotate == Get(safe5, "rotate")
        swap == rotate \in {StrV("90"), StrV("270")}
        w1 == TargetWidth(safe5)
        h1 == TargetHeight(safe5, sar)
        w == IF swap THEN h1 ELSE w1
        h == IF swap THEN w1 ELSE h1
        known == /\ Has(safe5, "src_width") /\ Has(safe5, "src_height")
                 /\ Truthy(safe5["src_width"]) /\ Truthy(safe5["src_height"])
        sw == IF known THEN safe5["src_width"] ELSE NoneV
        sh == IF known THEN safe5["src_height"] ELSE NoneV
        mode == IF Has(safe5, "mode")
                   /\ safe5["mode"].s \in {"stretch", "crop", "pad"}
                THEN safe5["mode"].s ELSE "stretch"
    IN  [ow |-> w, oh |-> h,
         res |-> aspect_corrections(sw, sh, w, h, sar, rotate, mode)]

\* VideoCodec.parse_options, and its overrides in the null and copy codecs
VideoCodec_parse_options(codec, opt) ==
    CASE codec.cls = "VideoNullCodec" -> Ok(<<"-vn">>)
      [] codec.cls = "VideoCopyCodec" -> Ok(<<"-vcodec", "copy">>)
      [] OTHER ->
        IF Raised(BaseCodec_parse_options(codec, opt))
        THEN BaseCodec_parse_options(codec, opt)
        ELSE
        Bind(DropPixFmt(
                DropOutside(
                    DropOutside(
                        DropOutside(
                            DropOutside(safe_options(codec.encoder_options, opt),
                                        "fps", 1, 120),
                            "keyframe_interval", 1, 1500),
                        "bitrate", 16, 15000),
                    "max_bitrate", 16, 15000)),
             LAMBDA safe5 :
        Bind(VideoCodec_geometry(safe5), LAMBDA geo :
            IF Raised(geo.res) THEN geo.res
            ELSE
            Bind(video_codec_specific_parse_options(codec.cls,
                    VideoCodec_store_geometry(safe5, geo.res.val)),
                 LAMBDA safe :
                    VideoCodec_ffmpeg_list(codec, safe, geo.ow, geo.oh))))

----------------------------------------------------------------------------
(* Converter (converter/__init__.py): the tables and parse_options.        *)

\* Converter.__init__: `for cls in list: table[cls.codec_name] = cls`, so a
\* name is bound to the last class of the list that carries it
CodecInTable(list, key) == \E i \in 1..Len(list) : list[i].codec_name = key
CodecLookup(list, key) ==
    list[CHOOSE i \in 1..Len(list) :
            /\ list[i].codec_name = key
            /\ \A j \in (i + 1)..Len(list) : list[j].codec_name # key]

FormatInTable(key) ==
    \E i \in 1..Len(format_list) : StrV(format_list[i].format_name) = key
FormatLookup(key) ==
    format_list[CHOOSE i \in 1..Len(format_list) :
            /\ StrV(format_list[i].format_name) = key
            /\ \A j \in (i + 1)..Len(format_list) :
                    StrV(format_list[j].format_name) # key]

ConverterError(msg) == Raise("ConverterError", msg)

\* x == i for an int i (True == 1 and 1.0 == 1 in Python)
EqInt(v, i) == IsNumber(v) /\ v.n = i * v.d

CodecList(kind) ==
    CASE kind = "audio" -> codec_list_audio
      [] kind = "video" -> codec_list_video
      [] kind = "subtitle" -> codec_list_subtitle

\* the kinds of descriptor: codec_lists' keys, and "format" for format_list
Kinds == {"audio", "video", "subtitle", "format"}

\* a class as a registration list holds it: its identity and public name
ClassOf(cls, name) == [cls |-> cls, codec_name |-> name]

\* codec_lists and format_list once the package is imported
Imported ==
    [kind \in Kinds |->
        IF kind = "format"
        THEN [i \in DOMAIN format_list |->
                ClassOf(format_list[i].cls, StrV(format_list[i].format_name))]
        ELSE [i \in DOMAIN CodecList(kind) |->
                ClassOf(CodecList(kind)[i].cls, CodecList(kind)[i].codec_name)]]

\* BaseCodec / BaseFormat, the class the metaclass made first (base_class)
base_class(kind) ==
    ClassOf(IF kind = "format" THEN "BaseFormat" ELSE "BaseCodec", NoneV)

\* list.remove(base) when the base is in the list and has no public name
WithoutAbstract(list, base) ==
    SelectSeq(list, LAMBDA c : c # base \/ Truthy(base.codec_name))

\* MetaBaseCodec.__new__ / MetaBaseFormat.__new__ for a class with one base:
\* the list of the kind after the class statement.  A codec class derived
\* from BaseCodec itself is not registered; a format class always is.
MetaBase_new(kind, list, sub_class, base) ==
    IF kind # "format" /\ base = base_class(kind)
    THEN list
    ELSE Append(WithoutAbstract(list, base), sub_class)

\* Converter.__init__: one table per kind, built by `table[name] = cls` over
\* the list in order
Converter_init(lists) ==
    [kind \in Kinds |->
        [name \in {lists[kind][i].codec_name : i \in DOMAIN lists[kind]} |->
            CodecLookup(lists[kind], name).cls]]

CodecParseOptions(kind, codec, opt) ==
    CASE kind = "audio" -> AudioCodec_parse_options(codec, opt)
      [] kind = "video" -> VideoCodec_parse_options(codec, opt)
      [] kind = "subtitle" -> SubtitleCodec_parse_options(codec, opt)

\* one stream's part of Converter.parse_options: the sub-mapping (or
\* {'codec': None} when the key is absent or `disabled`), the table lookup
\* and the descriptor's parse_options
StreamOptions(h, o, kind, disabled) ==
    IF Has(o, kind) /\ ~disabled
       /\ (~IsDict(o[kind]) \/ ~Has(h[o[kind].s], "codec"))
    THEN ConverterError("Invalid " \o kind \o " codec specification")
    ELSE Bind(IF Has(o, kind) /\ ~disabled THEN h[o[kind].s]
              ELSE [codec |-> NoneV],
              LAMBDA opt_kind :
        IF ~CodecInTable(CodecList(kind), opt_kind["codec"])
        THEN ConverterError("Requested unknown " \o kind \o " codec")
        ELSE CodecParseOptions(kind,
                CodecLookup(CodecList(kind), opt_kind["codec"]), opt_kind))

\* `if twopass == 1: ... elif twopass == 2: ...`
PassFlags(tp) ==
    CASE EqInt(tp, 1) -> <<"-pass", "1">>
      [] EqInt(tp, 2) -> <<"-pass", "2">>
      [] OTHER -> <<>>

\* an aggregation that puts the video flags before the audio flags
Aggregate_video_first(audio, video, subtitle, format, map_flags, tp) ==
    video \o audio \o subtitle \o format \o map_flags \o PassFlags(tp)

\* optlist = audio_options + video_options + subtitle_options + format_options
\* (format_options already extended by -map), then the -pass flags
Aggregate(audio, video, subtitle, format, map_flags, tp) ==
    audio \o video \o subtitle \o format \o map_flags \o PassFlags(tp)

\* a parse_options that compiles the requested audio in pass 1 too
AudioDisabled_never(tp) == FALSE

\* the audio sub-mapping is not looked at when twopass == 1
AudioDisabled(tp) == EqInt(tp, 1)

\* Converter.parse_options, from the audio options on
Converter_stream_options(h, o, tp, format_options) ==
    Bind(StreamOptions(h, o, "audio", AudioDisabled(tp)), LAMBDA audio_options :
    IF Raised(audio_options) THEN audio_options
    ELSE
    Bind(StreamOptions(h, o, "video", FALSE), LAMBDA video_options :
    IF Raised(video_options) THEN video_options
    ELSE
    Bind(StreamOptions(h, o, "subtitle", FALSE), LAMBDA subtitle_options :
    IF Raised(subtitle_options) THEN subtitle_options
    ELSE IF Has(o, "map") /\ ~IsInt(o["map"])
    THEN ConverterError("map needs to be int")
    ELSE Ok(Aggregate(audio_options.val, video_options.val,
                      subtitle_options.val, format_options,
                      IF Has(o, "map") THEN <<"-map", PyStr(o["map"])>>
                      ELSE <<>>,
                      tp)))))

\* Converter.parse_options(opt, twopass) on the heap h
Converter_parse_options(h, opt, tp) ==
    IF ~IsDict(opt) THEN ConverterError("Invalid output specification")
    ELSE
    Bind(h[opt.s], LAMBDA o :
    IF ~Has(o, "format") THEN ConverterError("Format not specified")
    ELSE IF ~FormatInTable(o["format"])
    THEN ConverterError("Requested unknown format")
    ELSE
    Bind(BaseFormat_parse_options(FormatLookup(o["format"]), o),
         LAMBDA format_options :
    IF Raised(format_options) THEN format_options
    ELSE IF ~Has(o, "audio") /\ ~Has(o, "video")
    THEN ConverterError("Neither audio nor video streams requested")
    ELSE Converter_stream_options(h, o, tp, format_options.val)))

----------------------------------------------------------------------------
(* The inputs: requests, probe results, Engine events.                     *)

\* one key of a request: absent, a scalar, or a sub-mapping held at "req.<key>"
Absent == [present |-> FALSE, val |-> NoneV, obj |-> EmptyDict]
Scalar(v) == [present |-> TRUE, val |-> v, obj |-> EmptyDict]
Mapping(key, dict) == [present |-> TRUE, val |-> DictV("req." \o key), obj |-> dict]

\* the heap holding the request {format, audio, video, subtitle, map} at "req"
RequestHeap(e) ==
    LET keys == {k \in DOMAIN e : e[k].present}
        subs == {k \in keys : IsDict(e[k].val)}
    IN  [id \in {"req"} \cup {"req." \o k : k \in subs} |->
            IF id = "req" THEN [k \in keys |-> e[k].val]
            ELSE e[CHOOSE k \in subs : "req." \o k = id].obj]

FormatChoices == {Absent, Scalar(StrV("ogg")), Scalar(StrV("mp4")), Scalar(StrV("foo"))}

AudioChoices ==
    {Absent, Scalar(StrV("whatever")), Mapping("audio", EmptyDict),
     Mapping("audio", [codec |-> StrV("bogus")]),
     Mapping("audio", [codec |-> NoneV]),
     Mapping("audio", [codec |-> StrV("copy")]),
     Mapping("audio", [codec |-> StrV("vorbis"), channels |-> IntV(1),
                       bitrate |-> IntV(32), samplerate |-> IntV(0)])}

VideoChoices ==
    {Absent, Scalar(StrV("whatever")),
     Mapping("video", [codec |-> StrV("bogus")]),
     Mapping("video", [codec |-> StrV("copy")]),
     Mapping("video", [codec |-> StrV("theora"), fps |-> IntV(25)]),
     Mapping("video", [codec |-> StrV("theora"), width |-> IntV(160),
                       height |-> IntV(120), mode |-> StrV("crop"),
                       bitrate |-> IntV(300)]),
     Mapping("video", [codec |-> StrV("theora"), width |-> IntV(18),
                       height |-> IntV(16), mode |-> StrV("crop"),
                       src_width |-> IntV(11), src_height |-> IntV(10)])}

SubtitleChoices ==
    {Absent, Scalar(StrV("whatever")), Mapping("subtitle", [codec |-> NoneV]),
     Mapping("subtitle", [codec |-> StrV("bogus")]),
     Mapping("subtitle", [codec |-> StrV("mov_text"), language |-> StrV("eng")])}

MapChoices == {Absent, Scalar(IntV(0)), Scalar(StrV("0"))}

\* the requests given to parse_options: every combination, and two non-mappings
Requests ==
    {[root |-> DictV("req"),
      heap |-> RequestHeap([format |-> f, audio |-> a, video |-> v,
                            subtitle |-> s, map |-> m])] :
        f \in FormatChoices, a \in AudioChoices, v \in VideoChoices,
        s \in SubtitleChoices, m \in MapChoices}
    \cup {[root |-> NoneV, heap |-> <<>>], [root |-> StrV("ogg"), heap |-> <<>>]}

\* the requests given to convert
ConvertRequests ==
    {r \in Requests :
        \/ ~IsDict(r.root)
        \/ LET o == r.heap["req"]
           IN  /\ Get(o, "format") \in {StrV("ogg"), StrV("foo")}
               /\ ~Has(o, "subtitle")
               /\ Get(o, "map") \in {NoneV, StrV("0")}
               /\ Has(o, "audio") =>
                    /\ IsDict(o["audio"])
                    /\ Get(r.heap["req.audio"], "codec")
                            \in {StrV("bogus"), StrV("vorbis")}
               /\ Has(o, "video") =>
                    \/ ~IsDict(o["video"])
                    \/ Has(r.heap["req.video"], "width")
                       /\ ~Has(r.heap["req.video"], "src_width")}

\* the twopass argument of parse_options
TwopassChoices == {NoneV, IntV(1), IntV(2)}

\* what Engine.probe returns: None, or the streams and the duration
NoInfo ==
    [ok |-> FALSE, video |-> FALSE, audio |-> FALSE, video_width |-> 0,
     video_height |-> 0, duration |-> FZero]
MediaInfo(video, audio, w, h, duration) ==
    [ok |-> TRUE, video |-> video, audio |-> audio, video_width |-> w,
     video_height |-> h, duration |-> duration]

Durations == {FZero, Frac(1, 200), Frac(1, 100), Frac(2, 1)}

Infos ==
    {NoInfo, MediaInfo(FALSE, FALSE, 0, 0, Frac(2, 1)),
     MediaInfo(FALSE, TRUE, 0, 0, Frac(2, 1))}
    \cup {MediaInfo(TRUE, TRUE, 640, 400, d) : d \in Durations}

\* what reading the Engine's stream gives: a timecode, its end, or a failure
Timecode(t) == [kind |-> "timecode", t |-> t, exc |-> ""]
EndOfStream == [kind |-> "end", t |-> FZero, exc |-> ""]
EngineFailure(exc) == [kind |-> "error", t |-> FZero, exc |-> exc]

\* the timecodes a stream is tried with: half, two thirds and the whole of
\* the duration, and one and a half times it (past the end)
Timecodes(duration) ==
    {FMul(duration, FHalf), FMul(duration, Frac(2, 3)), duration,
     FMul(duration, Frac(3, 2))}

EngineEvents(duration, delivered) ==
    {EndOfStream, EngineFailure("EngineError"), EngineFailure("EngineTimeout")}
    \cup (IF delivered < MaxTimecodes
          THEN {Timecode(t) : t \in Timecodes(duration)} ELSE {})

----------------------------------------------------------------------------
(* Converter.convert and Converter.segment as generators.                  *)

NoErr == [exc |-> "", msg |-> "", origin |-> ""]
\* an exception and the code that raised it
Exc(r, origin) == [exc |-> r.exc, msg |-> r.msg, origin |-> origin]

\* the threshold of `if info.format.duration < 0.01`
MinDuration == Frac(1, 100)

SourceChecked(h, opts, pre) ==
    [exc |-> "", msg |-> "", heap |-> h, options |-> opts, preoptlist |-> pre]
SourceFailed(kind, msg, h, opts) ==
    [exc |-> kind, msg |-> msg, heap |-> h, options |-> opts, preoptlist |-> <<>>]

\* a convert that writes the source dimensions into the caller's own mapping
InjectSource_inplace(h, opts, inf) ==
    LET v == h[opts.s]["video"]
    IN  IF ~IsDict(v)
        THEN SourceFailed("AttributeError", "no attribute 'copy'", h, opts)
        ELSE SourceChecked(
                [h EXCEPT ![v.s] =
                    Put(Put(@, "src_width", IntV(inf.video_width)),
                        "src_height", IntV(inf.video_height))],
                opts, <<>>)

\* convert, lines 185-191: options and options['video'] are copied and the
\* source dimensions written into the copy (no modelled request carries
\* ffmpeg_custom_launch_opts, so preoptlist stays empty)
InjectSource(h, opts, inf) ==
    LET h1 == ("options.copy" :> h[opts.s]) @@ h
        v == h1["options.copy"]["video"]
    IN  IF ~IsDict(v)
        THEN SourceFailed("AttributeError", "no attribute 'copy'", h1,
                          DictV("options.copy"))
        ELSE
        LET h2 == ("video.copy" :> h1[v.s]) @@ h1
            h3 == [h2 EXCEPT !["options.copy"] = Put(@, "video", DictV("video.copy"))]
            h4 == [h3 EXCEPT !["video.copy"] =
                        Put(Put(@, "src_width", IntV(inf.video_width)),
                            "src_height", IntV(inf.video_height))]
        IN  SourceChecked(h4, DictV("options.copy"), <<>>)

\* convert, lines 171-194: everything before the first parse_options call
ConvertPrelude(h, opts, exists, inf) ==
    IF ~IsDict(opts)
    THEN SourceFailed("ConverterError", "Invalid options", h, opts)
    ELSE IF ~exists
    THEN SourceFailed("ConverterError", "Source file doesn't exist", h, opts)
    ELSE IF ~inf.ok
    THEN SourceFailed("ConverterError",
                      "Can't get information about source file", h, opts)
    ELSE IF ~inf.video /\ ~inf.audio
    THEN SourceFailed("ConverterError",
                      "Source file has no audio or video streams", h, opts)
    ELSE
    LET src == IF inf.video /\ Has(h[opts.s], "video")
               THEN InjectSource(h, opts, inf)
               ELSE SourceChecked(h, opts, <<>>)
    IN  IF src.exc # "" THEN src
        ELSE IF FLess(inf.duration, MinDuration)
        THEN SourceFailed("ConverterError", "Zero-length media", src.heap,
                          src.options)
        ELSE src

\* a convert that halves the fraction of every pass
ProgressValue_halved(p, timecode, duration) ==
    IF p = 2 THEN FAdd(FHalf, FMul(FHalf, FDiv(timecode, duration)))
    ELSE FMul(FHalf, FDiv(timecode, duration))

\* the progress element convert yields for a timecode of pass p (0: single)
ProgressValue(p, timecode, duration) ==
    IF p = 2 THEN FAdd(FHalf, FDiv(timecode, duration))
    ELSE FDiv(timecode, duration)

\* the generator's frame: what a pull can change besides the heap
Frame ==
    [pc |-> pc, compiled |-> compiled, engineCalls |-> engineCalls,
     yielded |-> yielded, err |-> err, cwd |-> cwd]

LoopPc(p) == CASE p = 0 -> "single" [] p = 1 -> "pass1" [] p = 2 -> "pass2"

\* a loop that reads a second timecode from the Engine before it yields
YieldTimecode_two(p, st, ev, value) ==
    [st EXCEPT !.pc = LoopPc(p),
               !.engineCalls[Len(st.engineCalls)].delivered = @ + 2,
               !.yielded = Append(@, [pass |-> p, timecode |-> ev.t,
                                      value |-> value])]

\* `yield <value>` for the timecode the Engine delivered
YieldTimecode(p, st, ev, value) ==
    [st EXCEPT !.pc = LoopPc(p),
               !.engineCalls[Len(st.engineCalls)].delivered = @ + 1,
               !.yielded = Append(@, [pass |-> p, timecode |-> ev.t,
                                      value |-> value])]

\* the Engine's stream raised: the exception leaves the generator as it is
EngineRaised(st, ev) ==
    [st EXCEPT !.pc = "failed",
               !.engineCalls[Len(st.engineCalls)].status = "failed",
               !.engineCalls[Len(st.engineCalls)].raised = ev.exc,
               !.err = [exc |-> ev.exc, msg |-> "", origin |-> "engine"]]

StreamExhausted(st) ==
    [st EXCEPT !.engineCalls[Len(st.engineCalls)].status = "exhausted"]

\* optlist = self.parse_options(options, p), then self.ffmpeg.convert(...)
StartPass(p, tp, st, h, opts, pre) ==
    Bind(Converter_parse_options(h, opts, tp), LAMBDA r :
        IF Raised(r)
        THEN [st EXCEPT !.compiled =
                    Append(@, [pass |-> p, opt |-> opts, twopass |-> tp,
                               result |-> r]),
                        !.pc = "failed", !.err = Exc(r, "parse_options")]
        ELSE [st EXCEPT !.compiled =
                    Append(@, [pass |-> p, opt |-> opts, twopass |-> tp,
                               result |-> r]),
                        !.engineCalls =
                    Append(@, [pass |-> p, pre |-> pre, optlist |-> r.val,
                               status |-> "open", delivered |-> 0,
                               raised |-> ""])])

\* one step of the loop of the single pass or of pass 2
LoopLast(p, st, ev, duration) ==
    CASE ev.kind = "timecode" ->
            YieldTimecode(p, st, ev, ProgressValue(p, ev.t, duration))
      [] ev.kind = "end" -> [StreamExhausted(st) EXCEPT !.pc = "done"]
      [] ev.kind = "error" -> EngineRaised(st, ev)

\* the single pass or pass 2, from its parse_options call on
RunLast(p, tp, st, h, opts, pre, ev, duration) ==
    Bind(StartPass(p, tp, st, h, opts, pre), LAMBDA st1 :
        IF st1.pc = "failed" THEN st1 ELSE LoopLast(p, st1, ev, duration))

\* a pass-1 loop that swallows the Engine's failure and goes on to pass 2
LoopFirst_swallow(st, h, opts, pre, ev, ev2, duration) ==
    CASE ev.kind = "timecode" ->
            YieldTimecode(1, st, ev, ProgressValue(1, ev.t, duration))
      [] ev.kind = "end" ->
            RunLast(2, IntV(2), StreamExhausted(st), h, opts, pre, ev2, duration)
      [] ev.kind = "error" ->
            RunLast(2, IntV(2),
                    [EngineRaised(st, ev) EXCEPT !.pc = "pass1", !.err = NoErr],
                    h, opts, pre, ev2, duration)

\* one step of the loop of pass 1; when its stream ends, pass 2 starts
LoopFirst(st, h, opts, pre, ev, ev2, duration) ==
    CASE ev.kind = "timecode" ->
            YieldTimecode(1, st, ev, ProgressValue(1, ev.t, duration))
      [] ev.kind = "end" ->
            RunLast(2, IntV(2), StreamExhausted(st), h, opts, pre, ev2, duration)
      [] ev.kind = "error" -> EngineRaised(st, ev)

\* a two-pass convert that compiles and starts pass 2 along with pass 1
RunFirst_eager(st, h, opts, pre, ev, ev2, duration) ==
    Bind(StartPass(1, IntV(1), st, h, opts, pre), LAMBDA st1 :
        IF st1.pc = "failed" THEN st1
        ELSE Bind(StartPass(2, IntV(2), st1, h, opts, pre), LAMBDA st2 :
                IF st2.pc = "failed" THEN st2
                ELSE LoopFirst(st2, h, opts, pre, ev, ev2, duration)))

\* pass 1, from its parse_options call on
RunFirst(st, h, opts, pre, ev, ev2, duration) ==
    Bind(StartPass(1, IntV(1), st, h, opts, pre), LAMBDA st1 :
        IF st1.pc = "failed" THEN st1
        ELSE LoopFirst(st1, h, opts, pre, ev, ev2, duration))

\* convert's body after the prelude: `if twopass: ... else: ...`
ConvertBody(st, tp, h, opts, pre, ev, ev2, duration) ==
    IF Truthy(tp) THEN RunFirst(st, h, opts, pre, ev, ev2, duration)
    ELSE RunLast(0, tp, st, h, opts, pre, ev, duration)

\* the second event is read only when pass 1 ends in this pull
Events(duration, delivered, first) ==
    {<<ev, ev2>> \in EngineEvents(duration, delivered)
                        \X EngineEvents(duration, 0) :
        (first /\ ev.kind = "end") \/ ev2 = EndOfStream}

SetFrame(st) ==
    /\ pc' = st.pc
    /\ compiled' = st.compiled
    /\ engineCalls' = st.engineCalls
    /\ yielded' = st.yielded
    /\ err' = st.err
    /\ cwd' = st.cwd


\* segment's fixed flag list and output pattern (lines 230-234)
output_file == "playlist.m3u8"
output_directory == "segments"
working_directory == "/work"
SegmentOptlist ==
    <<"-flags", "-global_header", "-f", "segment", "-segment_time", "1",
      "-segment_list", output_file, "-segment_list_type", "m3u8",
      "-segment_format", "mpegts", "-segment_list_entry_prefix",
      output_directory \o "/", "-map", "0", "-map", "-0:d", "-bsf",
      "h264_mp4toannexb", "-vcodec", "copy", "-acodec", "copy">>

\* what os.makedirs does: creates the directory, or raises an OSError
MakedirsOutcomes == {"created", "EEXIST", "EACCES"}

\* segment, lines 213-227: the checks and os.makedirs; "" when they pass
SegmentPrelude(exists, inf, mk) ==
    IF ~exists THEN ConverterError("Source file doesn't exist")
    ELSE IF ~inf.ok
    THEN ConverterError("Can't get information about source file")
    ELSE IF ~inf.video /\ ~inf.audio
    THEN ConverterError("Source file has no audio or video streams")
    ELSE IF mk \notin {"created", "EEXIST"} THEN Raise("OSError", mk)
    ELSE Ok(<<>>)

\* a segment that rounds the percentage to the nearest integer
SegmentLoop_rounded(st, ev, duration, current_directory) ==
    CASE ev.kind = "timecode" ->
            IF duration = FZero
            THEN [st EXCEPT !.pc = "failed",
                            !.engineCalls[Len(st.engineCalls)].status = "closed",
                            !.err = [exc |-> "ZeroDivisionError",
                                     msg |-> "float division by zero",
                                     origin |-> "segment"]]
            ELSE [YieldTimecode(0, st, ev,
                    [n |-> Trunc(FAdd(FDiv(FMul(Frac(100, 1), ev.t), duration),
                                      FHalf)),
                     d |-> 1]) EXCEPT !.pc = "segment"]
      [] ev.kind = "end" ->
            [StreamExhausted(st) EXCEPT !.pc = "done", !.cwd = current_directory]
      [] ev.kind = "error" -> EngineRaised(st, ev)

\* one step of segment's loop (lines 235-237); current_directory is the
\* local read from os.getcwd() before the chdir
SegmentLoop(st, ev, duration, current_directory) ==
    CASE ev.kind = "timecode" ->
            IF duration = FZero
            THEN [st EXCEPT !.pc = "failed",
                            !.engineCalls[Len(st.engineCalls)].status = "closed",
                            !.err = [exc |-> "ZeroDivisionError",
                                     msg |-> "float division by zero",
                                     origin |-> "segment"]]
            ELSE [YieldTimecode(0, st, ev,
                    [n |-> Trunc(FDiv(FMul(Frac(100, 1), ev.t), duration)),
                     d |-> 1]) EXCEPT !.pc = "segment"]
      [] ev.kind = "end" ->
            [StreamExhausted(st) EXCEPT !.pc = "done", !.cwd = current_directory]
      [] ev.kind = "error" -> EngineRaised(st, ev)

\* segment from its first line to its first yield, return or raise
SegmentStart(st, exists, inf, mk, ev) ==
    LET r == SegmentPrelude(exists, inf, mk)
    IN  IF Raised(r) THEN [st EXCEPT !.pc = "failed", !.err = Exc(r, "segment")]
        ELSE SegmentLoop(
                [st EXCEPT !.cwd = working_directory,
                           !.engineCalls =
                                Append(@, [pass |-> 0, pre |-> <<>>,
                                           optlist |-> SegmentOptlist,
                                           status |-> "open", delivered |-> 0,
                                           raised |-> ""])],
                ev, inf.duration, st.cwd)

----------------------------------------------------------------------------
(* The operations.                                                         *)

Init ==
    /\ op = "none"
    /\ pc = "idle"
    /\ heap = <<>>
    /\ snapshot = <<>>
    /\ request = NoneV
    /\ options = NoneV
    /\ twopass = NoneV
    /\ pathExists = FALSE
    /\ info = NoInfo
    /\ preoptlist = <<>>
    /\ compiled = <<>>
    /\ engineCalls = <<>>
    /\ yielded = <<>>
    /\ err = NoErr
    /\ cwd = "/home"
    /\ cwd0 = "/home"
    /\ registered = Imported
    /\ defined = <<>>
    /\ tables = Converter_init(Imported)

\* c.parse_options(opt, twopass): returns or raises at once
CallParseOptions ==
    /\ pc = "idle"
    /\ \E r \in Requests, tp \in TwopassChoices :
        \E res \in {Converter_parse_options(r.heap, r.root, tp)} :
            /\ op' = "parse_options"
            /\ heap' = r.heap
            /\ snapshot' = r.heap
            /\ request' = r.root
            /\ options' = r.root
            /\ twopass' = tp
            /\ compiled' = <<[pass |-> 0, opt |-> r.root, twopass |-> tp,
                              result |-> res]>>
            /\ pc' = IF Raised(res) THEN "failed" ELSE "returned"
            /\ err' = IF Raised(res) THEN Exc(res, "parse_options") ELSE NoErr
    /\ UNCHANGED <<pathExists, info, preoptlist, engineCalls, yielded, cwd, cwd0>>
    /\ UNCHANGED <<registered, defined, tables>>

\* c.convert(infile, outfile, options, twopass): a generator is made, and
\* none of its code runs
CallConvert ==
    /\ pc = "idle"
    /\ \E r \in ConvertRequests, tp \in BOOLEAN, exists \in BOOLEAN, inf \in Infos :
        /\ ~exists => inf = NoInfo
        /\ op' = "convert"
        /\ heap' = r.heap
        /\ snapshot' = r.heap
        /\ request' = r.root
        /\ options' = r.root
        /\ twopass' = BoolV(tp)
        /\ pathExists' = exists
        /\ info' = inf
    /\ pc' = "created"
    /\ UNCHANGED <<preoptlist, compiled, engineCalls, yielded, err, cwd, cwd0>>
    /\ UNCHANGED <<registered, defined, tables>>

\* c.segment(infile, working_directory, output_file, output_directory)
CallSegment ==
    /\ pc = "idle"
    /\ \E exists \in BOOLEAN, inf \in Infos :
        /\ ~exists => inf = NoInfo
        /\ pathExists' = exists
        /\ info' = inf
    /\ op' = "segment"
    /\ pc' = "created"
    /\ cwd0' = cwd
    /\ UNCHANGED <<heap, snapshot, request, options, twopass, preoptlist,
                   compiled, engineCalls, yielded, err, cwd>>
    /\ UNCHANGED <<registered, defined, tables>>

Delivered == engineCalls[Len(engineCalls)].delivered

\* next() on convert's generator: the code runs to its next yield, to its
\* end, or to the exception it raises
ResumeConvert ==
    /\ op = "convert"
    /\ \/ /\ pc = "created"
          /\ LET src == ConvertPrelude(heap, request, pathExists, info)
             IN  /\ heap' = src.heap
                 /\ options' = src.options
                 /\ preoptlist' = src.preoptlist
                 /\ IF src.exc # ""
                    THEN SetFrame([Frame EXCEPT !.pc = "failed",
                                                !.err = Exc(src, "convert")])
                    ELSE \E evs \in Events(info.duration, 0, Truthy(twopass)) :
                            SetFrame(ConvertBody(Frame, twopass, src.heap,
                                                 src.options, src.preoptlist,
                                                 evs[1], evs[2], info.duration))
       \/ /\ pc = "pass1"
          /\ \E evs \in Events(info.duration, Delivered, TRUE) :
                SetFrame(LoopFirst(Frame, heap, options, preoptlist, evs[1],
                                   evs[2], info.duration))
          /\ UNCHANGED <<heap, options, preoptlist>>
       \/ /\ pc = "pass2"
          /\ \E ev \in EngineEvents(info.duration, Delivered) :
                SetFrame(LoopLast(2, Frame, ev, info.duration))
          /\ UNCHANGED <<heap, options, preoptlist>>
       \/ /\ pc = "single"
          /\ \E ev \in EngineEvents(info.duration, Delivered) :
                SetFrame(LoopLast(0, Frame, ev, info.duration))
          /\ UNCHANGED <<heap, options, preoptlist>>
    /\ UNCHANGED <<op, snapshot, request, twopass, pathExists, info, cwd0>>
    /\ UNCHANGED <<registered, defined, tables>>

\* next() on segment's generator
ResumeSegment ==
    /\ op = "segment"
    /\ \/ /\ pc = "created"
          /\ \E mk \in MakedirsOutcomes, ev \in EngineEvents(info.duration, 0) :
                SetFrame(SegmentStart(Frame, pathExists, info, mk, ev))
       \/ /\ pc = "segment"
          /\ \E ev \in EngineEvents(info.duration, Delivered) :
                SetFrame(SegmentLoop(Frame, ev, info.duration, cwd0))
    /\ UNCHANGED <<op, heap, snapshot, request, options, twopass, pathExists,
                   info, preoptlist, cwd0>>
    /\ UNCHANGED <<registered, defined, tables>>

\* the caller abandons the generator: GeneratorExit is raised at the yield
\* the generator is suspended at, and nothing in convert or segment catches it
Close ==
    /\ pc \in {"created", "pass1", "pass2", "single", "segment"}
    /\ pc' = "closed"
    /\ engineCalls' =
            IF engineCalls # <<>>
               /\ engineCalls[Len(engineCalls)].status = "open"
            THEN [engineCalls EXCEPT ![Len(engineCalls)].status = "closed"]
            ELSE engineCalls
    /\ UNCHANGED <<op, heap, snapshot, request, options, twopass, pathExists,
                   info, preoptlist, compiled, yielded, err, cwd, cwd0>>
    /\ UNCHANGED <<registered, defined, tables>>

Next ==
    \/ CallParseOptions
    \/ CallConvert
    \/ CallSegment
    \/ ResumeConvert
    \/ ResumeSegment
    \/ Close

Spec == Init /\ [][Next]_vars

----------------------------------------------------------------------------
(* The descriptors' compilers called on their own, as                      *)
(* Converter.parse_options calls them: cls().parse_options(opt).           *)

\* the classes whose parse_options validates (every class but the null and
\* the copy codec of its kind)
Validating(list) ==
    {list[i] : i \in {j \in 1..Len(list) :
                        list[j].codec_name \notin {NoneV, StrV("copy")}}}

\* {'codec': name}, as a request names a codec
Named(codec) == [codec |-> codec.codec_name]

\* the values a numeric option with the range lo..hi is tried with: each
\* boundary, its outer neighbour, and a float that int() truncates
ProbeValues(lo, hi) ==
    {IntV(lo - 1), IntV(lo), IntV(hi), IntV(hi + 1),
     FloatV(Frac(2 * lo + 1, 2)), FloatV(Frac(2 * hi + 1, 2))}

AudioProbes ==
    {[k |-> "channels", v |-> v] : v \in ProbeValues(1, 12)}
    \cup {[k |-> "bitrate", v |-> v] : v \in ProbeValues(8, 512)}
    \cup {[k |-> "samplerate", v |-> v] : v \in ProbeValues(1000, 50000)}

VideoProbes ==
    {[k |-> "fps", v |-> v] : v \in ProbeValues(1, 120)}
    \cup {[k |-> "keyframe_interval", v |-> v] : v \in ProbeValues(1, 1500)}
    \cup {[k |-> "bitrate", v |-> v] : v \in ProbeValues(16, 15000)}
    \cup {[k |-> "max_bitrate", v |-> v] : v \in ProbeValues(16, 15000)}
    \cup {[k |-> "pix_fmt", v |-> StrV(f)] : f \in {"yuv420p", "yuv422p", "bogus"}}

\* the sources a video request is tried with: absent, a width of 0, 640x400,
\* 640x480, 11x10, and 640x16, whose aspect of 40 derives a height of 0 from
\* a width below 40
SourceSizes ==
    {<<0, 0>>, <<0, 480>>, <<640, 400>>, <<640, 480>>, <<11, 10>>, <<640, 16>>}
\* 0 stands for a dimension the request does not give
TargetWidths == {0, 15, 16, 18, 100, 320, 4000, 4001}
TargetHeights == {0, 15, 16, 200, 240, 3000, 3001}
Modes == {"", "stretch", "crop", "pad", "fit"}

\* the options of a video request with the given geometry
GeometryOptions(src, w, h, mode) ==
    (IF src = <<0, 0>> THEN EmptyDict
     ELSE [src_width |-> IntV(src[1]), src_height |-> IntV(src[2])])
    @@ (IF w = 0 THEN EmptyDict ELSE [width |-> IntV(w)])
    @@ (IF h = 0 THEN EmptyDict ELSE [height |-> IntV(h)])
    @@ (IF mode = "" THEN EmptyDict ELSE [mode |-> StrV(mode)])

\* the video classes the geometry is tried with: one without a hook that
\* emits -vf, and the MPEG and VAAPI classes whose hooks do
GeometryCodecs == {"TheoraCodec", "Mpeg1Codec", "Mpeg2Codec", "VaapiH264Codec"}

\* every class of a list
Classes(list) == {list[i] : i \in 1..Len(list)}

\* {'format': name}, and the same with the fast-start option set or cleared
FormatOptions(fmt) ==
    {[format |-> StrV(fmt.format_name)]}
    \cup {[format |-> StrV(fmt.format_name), faststart |-> BoolV(b)] :
            b \in BOOLEAN}

\* the requests that do not name the codec c of the list: no 'codec' key, a
\* name no class has, and the name of every other class of the list
Misnamed(list, c) ==
    {EmptyDict, [codec |-> StrV("bogus")]}
    \cup {Named(d) : d \in {x \in Classes(list) : x.codec_name # c.codec_name}}

\* the same for the format f: no 'format' key (alone or beside another
\* option), a name no class has, and the name of every other class
MisnamedFormat(f) ==
    {EmptyDict, [faststart |-> BoolV(TRUE)], [format |-> StrV("bogus")]}
    \cup {[format |-> StrV(g.format_name)] :
            g \in {x \in Classes(format_list) : x.format_name # f.format_name}}

\* the subtitle options a request is tried with: a language of three and of
\* seven letters, and forced and default inside and outside 0..1, each of
\* them given or not
SubtitleOptions ==
    {l @@ f @@ d :
        l \in {EmptyDict, [language |-> StrV("eng")],
               [language |-> StrV("english")]},
        f \in {EmptyDict, [forced |-> IntV(0)], [forced |-> IntV(2)]},
        d \in {EmptyDict, [default |-> IntV(1)], [default |-> IntV(-1)]}}

\* the descriptor the test gives a schema of its own: BaseCodec with
\* encoder_options = {'foo': int, 'bar': bool}
TestCodec == CodecClass("BaseCodec", NoneV, "", [foo |-> "int", bar |-> "bool"])

\* the raw values an option is tried with: None, a numeral, a word, an
\* integer and a float with a fraction
RawValues == {NoneV, StrV("42"), StrV("w00t"), IntV(0), FloatV(Frac(3, 2))}

\* every mapping of some of the keys to the raw values
RawOptions(keys) == UNION {[ks -> RawValues] : ks \in SUBSET keys}

\* the calls of safe_options: the test's two, the test's schema with every
\* raw mapping of a known and an unknown key, and the video schema with a
\* key of each schema type and an unknown key
SafeOptionsRequests ==
    {[kind |-> "safe_options", codec |-> TestCodec, opt |-> o] :
        o \in {[baz |-> IntV(1), quux |-> IntV(1), foo |-> StrV("w00t")],
               [foo |-> StrV("42"), bar |-> IntV(0)]}
              \cup RawOptions({"foo", "bar", "baz"})}
    \cup {[kind |-> "safe_options", codec |-> c, opt |-> o] :
            c \in {x \in Classes(codec_list_video) : x.cls = "TheoraCodec"},
            o \in RawOptions({"codec", "bitrate", "sample_aspect_ratio",
                              "baz"})}

CompileRequests ==
    SafeOptionsRequests
    \cup
    {[kind |-> "audio", codec |-> c, opt |-> Named(c)] :
        c \in Classes(codec_list_audio)}
    \cup UNION {{[kind |-> "audio", codec |-> c, opt |-> o] :
                    o \in Misnamed(codec_list_audio, c)} :
                c \in Classes(codec_list_audio)}
    \cup UNION {{[kind |-> "video", codec |-> c, opt |-> o] :
                    o \in Misnamed(codec_list_video, c)} :
                c \in Classes(codec_list_video)}
    \cup UNION {{[kind |-> "subtitle", codec |-> c, opt |-> o] :
                    o \in Misnamed(codec_list_subtitle, c)} :
                c \in Classes(codec_list_subtitle)}
    \cup UNION {{[kind |-> "format", codec |-> f, opt |-> o] :
                    o \in MisnamedFormat(f)} : f \in Classes(format_list)}
    \cup {[kind |-> "subtitle", codec |-> c, opt |-> Named(c)] :
            c \in Classes(codec_list_subtitle)}
    \cup UNION {{[kind |-> "format", codec |-> f, opt |-> o] :
                    o \in FormatOptions(f)} : f \in Classes(format_list)}
    \cup {[kind |-> "audio", codec |-> c, opt |-> Put(Named(c), p.k, p.v)] :
            c \in Validating(codec_list_audio), p \in AudioProbes}
    \cup {[kind |-> "subtitle", codec |-> c, opt |-> o @@ Named(c)] :
            c \in Classes(codec_list_subtitle), o \in SubtitleOptions}
    \cup {[kind |-> "video", codec |-> c, opt |-> Named(c)] :
            c \in Classes(codec_list_video)}
    \cup {[kind |-> "video", codec |-> c, opt |-> Put(Named(c), p.k, p.v)] :
            c \in Validating(codec_list_video), p \in VideoProbes}
    \cup {[kind |-> "video", codec |-> c,
           opt |-> GeometryOptions(src, w, h, mode) @@ Named(c)] :
            c \in {x \in Validating(codec_list_video) : x.cls \in GeometryCodecs},
            src \in SourceSizes, w \in TargetWidths, h \in TargetHeights,
            mode \in Modes}

\* a compiler is about to be called with a request of CompileRequests
CompileInit ==
    /\ op = "compile"
    /\ pc = "idle"
    /\ request \in CompileRequests
    /\ heap = <<>>
    /\ snapshot = <<>>
    /\ options = NoneV
    /\ twopass = NoneV
    /\ pathExists = FALSE
    /\ info = NoInfo
    /\ preoptlist = <<>>
    /\ compiled = <<>>
    /\ engineCalls = <<>>
    /\ yielded = <<>>
    /\ err = NoErr
    /\ cwd = "/home"
    /\ cwd0 = "/home"
    /\ registered = Imported
    /\ defined = <<>>
    /\ tables = Converter_init(Imported)

\* the call returned res or raised it
Compiled(res) ==
    /\ compiled' = <<res>>
    /\ pc' = IF Raised(res) THEN "failed" ELSE "returned"
    /\ err' = IF Raised(res) THEN Exc(res, request.kind) ELSE NoErr
    /\ UNCHANGED <<op, heap, snapshot, request, options, twopass, pathExists,
                   info, preoptlist, engineCalls, yielded, cwd, cwd0>>
    /\ UNCHANGED <<registered, defined, tables>>

\* self.audio_codecs[c]().parse_options(opt_audio)
CompileAudio ==
    /\ pc = "idle"
    /\ request.kind = "audio"
    /\ \E res \in {AudioCodec_parse_options(request.codec, request.opt)} :
            Compiled(res)

\* self.video_codecs[c]().parse_options(opt_video)
CompileVideo ==
    /\ pc = "idle"
    /\ request.kind = "video"
    /\ \E res \in {VideoCodec_parse_options(request.codec, request.opt)} :
            Compiled(res)

\* self.subtitle_codecs[c]().parse_options(opt_subtitle)
CompileSubtitle ==
    /\ pc = "idle"
    /\ request.kind = "subtitle"
    /\ \E res \in {SubtitleCodec_parse_options(request.codec, request.opt)} :
            Compiled(res)

\* self.formats[f]().parse_options(opt)
CompileFormat ==
    /\ pc = "idle"
    /\ request.kind = "format"
    /\ \E res \in {BaseFormat_parse_options(request.codec, request.opt)} :
            Compiled(res)

\* c.safe_options(opts), called on its own as the test calls it
CallSafeOptions ==
    /\ pc = "idle"
    /\ request.kind = "safe_options"
    /\ \E res \in {Ok(safe_options(request.codec.encoder_options,
                                    request.opt))} :
            Compiled(res)

CompileNext ==
    \/ CallSafeOptions
    \/ CompileAudio
    \/ CompileVideo
    \/ CompileSubtitle
    \/ CompileFormat

CompileSpec == CompileInit /\ [][CompileNext]_vars

----------------------------------------------------------------------------
(* Class statements after the import, and the Converter built from the     *)
(* registration lists they leave.                                          *)

\* the classes one program defines on top of the package's
MaxDefined == 2

\* the bases a new class of a kind is derived from: the metaclass's base
\* class, the kind's unregistered codec class, the class that heads the
\* kind's list, and the classes defined before it
Bases(kind) ==
    {base_class(kind), registered[kind][1]}
    \cup (CASE kind = "audio" -> {ClassOf("AudioCodec", NoneV)}
           [] kind = "video" -> {ClassOf("VideoCodec", NoneV)}
           [] kind = "subtitle" -> {ClassOf("SubtitleCodec", NoneV)}
           [] OTHER -> {})
    \cup {defined[i].sub_class :
            i \in {j \in DOMAIN defined : defined[j].kind = kind}}

\* the package is imported and no Converter is constructed yet
RegisterInit ==
    /\ op = "import"
    /\ pc = "defining"
    /\ heap = <<>>
    /\ snapshot = <<>>
    /\ request = NoneV
    /\ options = NoneV
    /\ twopass = NoneV
    /\ pathExists = FALSE
    /\ info = NoInfo
    /\ preoptlist = <<>>
    /\ compiled = <<>>
    /\ engineCalls = <<>>
    /\ yielded = <<>>
    /\ err = NoErr
    /\ cwd = "/home"
    /\ cwd0 = "/home"
    /\ registered = Imported
    /\ defined = <<>>
    /\ tables = [kind \in Kinds |-> EmptyDict]

\* class PluginN(base): codec_name = name  (or format_name = name); the name
\* is the base's when the class body sets none, the name of a class the
\* package registers, or a name of its own
DefineClass ==
    /\ op = "import"
    /\ pc = "defining"
    /\ Len(defined) < MaxDefined
    /\ \E kind \in Kinds : \E base \in Bases(kind) :
       \E name \in {base.codec_name, Imported[kind][3].codec_name,
                    StrV("plugin")} :
       \E sub_class \in {ClassOf("Plugin" \o ToString(Len(defined) + 1), name)} :
            /\ registered' = [registered EXCEPT ![kind] =
                                MetaBase_new(kind, @, sub_class, base)]
            /\ defined' = Append(defined,
                                 [kind |-> kind, sub_class |-> sub_class])
    /\ UNCHANGED <<op, pc, heap, snapshot, request, options, twopass,
                   pathExists, info, preoptlist, compiled, engineCalls,
                   yielded, err, cwd, cwd0, tables>>

\* Converter()
Construct ==
    /\ op = "import"
    /\ pc = "defining"
    /\ tables' = Converter_init(registered)
    /\ pc' = "constructed"
    /\ UNCHANGED <<op, heap, snapshot, request, options, twopass, pathExists,
                   info, preoptlist, compiled, engineCalls, yielded, err, cwd,
                   cwd0, registered, defined>>

RegisterNext ==
    \/ DefineClass
    \/ Construct

RegisterSpec == RegisterInit /\ [][RegisterNext]_vars

----------------------------------------------------------------------------
(* The two-pass workflow.                                                  *)

TwoPassConvert == op = "convert" /\ Truthy(twopass)

\* the timecodes the Engine delivered lie in [0, duration] and do not
\* decrease within a pass
TimecodesInRange ==
    /\ \A i \in DOMAIN yielded :
            FLeq(FZero, yielded[i].timecode)
            /\ FLeq(yielded[i].timecode, info.duration)
    /\ \A i, j \in DOMAIN yielded :
            (i < j /\ yielded[i].pass = yielded[j].pass)
                => FLeq(yielded[i].timecode, yielded[j].timecode)

\* C1: in a two-pass convert whose Engine timecodes lie in [0, duration],
\* every value yielded during pass 1 lies in [0, 0.5), every value yielded
\* during pass 2 lies in [0.5, 1.0], and the yielded sequence never decreases.
\* The code yields timecode / duration in pass 1 and 0.5 + timecode / duration
\* in pass 2, so this does not hold.
C1_TwoPassProgressHalved ==
    (TwoPassConvert /\ TimecodesInRange) =>
        /\ \A i \in DOMAIN yielded :
                /\ yielded[i].pass = 1 =>
                        FLeq(FZero, yielded[i].value)
                        /\ FLess(yielded[i].value, FHalf)
                /\ yielded[i].pass = 2 =>
                        FLeq(FHalf, yielded[i].value)
                        /\ FLeq(yielded[i].value, FOne)
        /\ \A i, j \in DOMAIN yielded :
                i < j => FLeq(yielded[i].value, yielded[j].value)

\* C2: in a two-pass convert the pass-2 flag list is compiled, and the pass-2
\* Engine.convert invocation made, only once pass 1's stream has been pulled
\* to exhaustion, and at most one invocation's stream is open at any time.
C2_PassesSequential ==
    TwoPassConvert =>
        /\ \A i \in DOMAIN compiled :
                compiled[i].pass = 2 =>
                    /\ engineCalls # <<>>
                    /\ engineCalls[1].pass = 1
                    /\ engineCalls[1].status = "exhausted"
        /\ \A i \in DOMAIN engineCalls :
                engineCalls[i].pass = 2 =>
                    /\ i = 2
                    /\ engineCalls[1].pass = 1
                    /\ engineCalls[1].status = "exhausted"
                    /\ \E k \in DOMAIN compiled : compiled[k].pass = 2
        /\ Cardinality({i \in DOMAIN engineCalls :
                            engineCalls[i].status = "open"}) <= 1

\* pass 2 is running after pass 1 delivered elements and was drained
C2_Pass2AfterDrainedPass1 ==
    /\ TwoPassConvert
    /\ pc = "pass2"
    /\ Len(engineCalls) = 2
    /\ engineCalls[2].status = "open"
    /\ \E i \in DOMAIN yielded : yielded[i].pass = 1
    /\ \E i \in DOMAIN yielded : yielded[i].pass = 2

\* C3: in a two-pass convert, when pass 1's Engine stream fails, the caller
\* gets the Engine's exception as it was raised, the generator is finished,
\* pass 1 was the only Engine.convert invocation and no pass-2 flag list was
\* compiled.
C3_Pass1FailureAborts ==
    (TwoPassConvert /\ engineCalls # <<>> /\ engineCalls[1].status = "failed") =>
        /\ pc = "failed"
        /\ err.origin = "engine"
        /\ err.exc = engineCalls[1].raised
        /\ err.exc \in {"EngineError", "EngineTimeout"}
        /\ Len(engineCalls) = 1
        /\ \A i \in DOMAIN compiled : compiled[i].pass = 1

\* pass 1 timed out after it had delivered an element
C3_Pass1FailedMidStream ==
    /\ TwoPassConvert
    /\ pc = "failed"
    /\ engineCalls # <<>>
    /\ engineCalls[1].status = "failed"
    /\ err.exc = "EngineTimeout"
    /\ Len(yielded) >= 1

\* C4: when convert reports a configuration error of the request (the
\* ConverterError raised by parse_options), no Engine.convert invocation has
\* been made, in the single-pass and in the two-pass workflow.  In two-pass
\* mode the audio entry is first validated by the pass-2 compilation, after
\* pass 1 has run, so this does not hold.
C4_ValidationBeforeEngine ==
    (op = "convert" /\ pc = "failed" /\ err.exc = "ConverterError"
        /\ err.origin = "parse_options")
    => engineCalls = <<>>

----------------------------------------------------------------------------
(* The working directory and the caller's request.                         *)

\* C5: whenever the segment workflow is over (its sequence exhausted, an
\* exception raised from it, or the generator closed by the caller), the
\* working directory is the one the process had before the call.  The chdir
\* back is the statement after the loop, reached on exhaustion only, so this
\* does not hold.
C5_CwdRestoredOnEveryExit ==
    (op = "segment" /\ pc \in {"done", "failed", "closed"}) => cwd = cwd0

\* C6: during and after a convert, single-pass or two-pass, every mapping of
\* the caller's request (the request and its nested mappings) is equal to its
\* snapshot taken at the call, also when the source dimensions are injected.
C6_RequestUntouched ==
    op = "convert" =>
        \A o \in DOMAIN snapshot : o \in DOMAIN heap /\ heap[o] = snapshot[o]

\* a two-pass convert was consumed to its end, with the source dimensions
\* injected into the copy of the video mapping
C6_ConsumedWithInjectedSource ==
    /\ TwoPassConvert
    /\ pc = "done"
    /\ "video.copy" \in DOMAIN heap
    /\ Has(heap["video.copy"], "src_width")
    /\ heap["video.copy"]["src_width"] = IntV(info.video_width)
    /\ heap["video.copy"]["src_height"] = IntV(info.video_height)
    /\ ~Has(snapshot["req.video"], "src_width")
    /\ heap["options.copy"]["video"] = DictV("video.copy")

----------------------------------------------------------------------------
(* The compiled flag list.                                                 *)

DisableFlag(kind) ==
    CASE kind = "audio" -> <<"-an">>
      [] kind = "video" -> <<"-vn">>
      [] kind = "subtitle" -> <<"-sn">>

CopyPair(kind) ==
    CASE kind = "audio" -> <<"-acodec", "copy">>
      [] kind = "video" -> <<"-vcodec", "copy">>
      [] kind = "subtitle" -> <<"-scodec", "copy">>

\* the flags one stream kind is to contribute to the list compiled from the
\* mapping o: the disable flag when the kind is not compiled, the copy pair
\* for the copy codec, the codec's own flags otherwise
StreamFlags(o, kind, disabled) ==
    IF ~Has(o, kind) \/ disabled THEN DisableFlag(kind)
    ELSE IF heap[o[kind].s]["codec"] = StrV("copy") THEN CopyPair(kind)
    ELSE StreamOptions(heap, o, kind, FALSE).val

\* C7: every flag list parse_options returns is audio flags ++ video flags ++
\* subtitle flags ++ format flags ++ ['-map', n] (when map is given) ++
\* ['-pass', k] (for pass k of a two-pass run), where an undeclared stream
\* kind contributes its disable flag alone and a copy codec its copy pair alone.
C7_FlagListIsOrderedConcatenation ==
    \A i \in DOMAIN compiled :
        ~Raised(compiled[i].result) =>
            LET o == heap[compiled[i].opt.s]
                tp == compiled[i].twopass
            IN  compiled[i].result.val =
                    StreamFlags(o, "audio", tp = IntV(1))
                    \o StreamFlags(o, "video", FALSE)
                    \o StreamFlags(o, "subtitle", FALSE)
                    \o BaseFormat_parse_options(FormatLookup(o["format"]), o).val
                    \o (IF Has(o, "map") THEN <<"-map", ToString(o["map"].n)>>
                        ELSE <<>>)
                    \o (IF tp = IntV(1) THEN <<"-pass", "1">>
                        ELSE IF tp = IntV(2) THEN <<"-pass", "2">>
                        ELSE <<>>)

\* parse_options returned the list of a request with copied audio, theora
\* video at 25 fps, no subtitle, map 0, compiled for pass 2
C7_CompiledInFixedOrder ==
    /\ op = "parse_options"
    /\ pc = "returned"
    /\ ~Has(heap["req"], "subtitle")
    /\ compiled[1].result.val =
            <<"-acodec", "copy", "-vcodec", "libtheora", "-pix_fmt", "yuv420p",
              "-r", "25", "-sn", "-f", "ogg", "-map", "0", "-pass", "2">>

\* the request is one of those parse_options is to refuse
Malformed(h, opt) ==
    \/ ~IsDict(opt)
    \/ LET o == h[opt.s]
       IN  \/ ~Has(o, "format")
           \/ ~FormatInTable(o["format"])
           \/ ~Has(o, "audio") /\ ~Has(o, "video")
           \/ \E kind \in {"audio", "video", "subtitle"} :
                /\ Has(o, kind)
                /\ \/ ~IsDict(o[kind])
                   \/ ~Has(h[o[kind].s], "codec")
                   \/ ~CodecInTable(CodecList(kind), h[o[kind].s]["codec"])
           \/ Has(o, "map") /\ ~IsInt(o["map"])

\* C8: parse_options raises ConverterError, and returns no list, for every
\* request that is not a mapping, has no or an unknown format, declares
\* neither audio nor video, declares a stream entry that is not a mapping,
\* lacks a codec or names an unknown codec, or has a map that is not an int.
\* With twopass == 1 the audio entry is not looked at, so this does not hold.
C8_MalformedRequestRejected ==
    (op = "parse_options" /\ Malformed(heap, request)) =>
        compiled[1].result.exc = "ConverterError"

\* C9: in a two-pass convert the pass-1 list has the audio part ['-an'] alone
\* and ends with ['-pass', '1']; the pass-2 list has the audio flags of the
\* request as it stands and ends with ['-pass', '2']; between the audio part
\* and the pass flags both lists are the same.
C9_PassFlagLists ==
    TwoPassConvert =>
        \A i \in DOMAIN compiled :
            ~Raised(compiled[i].result) =>
                LET val == compiled[i].result.val
                    val1 == compiled[1].result.val
                    o == heap[compiled[i].opt.s]
                IN  /\ compiled[i].pass = 1 =>
                        /\ Head(val) = "-an"
                        /\ val[2] \in {"-vn", "-vcodec"}
                        /\ SubSeq(val, Len(val) - 1, Len(val)) = <<"-pass", "1">>
                    /\ compiled[i].pass = 2 =>
                        /\ i = 2
                        /\ compiled[i].opt = compiled[1].opt
                        /\ val = StreamFlags(o, "audio", FALSE)
                                    \o SubSeq(val1, 2, Len(val1) - 2)
                                    \o <<"-pass", "2">>

\* both lists of a two-pass convert with vorbis audio and a video stream
\* were compiled
C9_BothPassesCompiled ==
    /\ TwoPassConvert
    /\ Len(compiled) = 2
    /\ ~Raised(compiled[2].result)
    /\ compiled[1].result.val[1] = "-an"
    /\ compiled[2].result.val[1] = "-acodec"
    /\ compiled[2].result.val[2] = "libvorbis"
    /\ Has(heap[compiled[2].opt.s], "video")

----------------------------------------------------------------------------
(* The input preconditions of convert.                                     *)

PreconditionsHold ==
    /\ pathExists
    /\ info.ok
    /\ info.video \/ info.audio
    /\ FLeq(MinDuration, info.duration)

\* C10: once convert has run, either the source path exists, the probe gave
\* media info with an audio or a video stream and the duration is at least
\* 0.01, or convert raised its input error (ConverterError) and made no
\* Engine.convert invocation.  The copy of a video entry that is not a mapping
\* raises AttributeError before the duration is looked at, so this does not
\* hold.
C10_InputErrorsReported ==
    (op = "convert" /\ IsDict(request) /\ pc \notin {"idle", "created", "closed"}
        /\ ~PreconditionsHold)
    => /\ engineCalls = <<>>
       /\ pc = "failed"
       /\ err.exc = "ConverterError"
       /\ err.origin = "convert"

----------------------------------------------------------------------------
(* The segment workflow.                                                   *)

\* C11: in the segment workflow a source whose duration is below 0.01 (zero
\* included) is refused before Engine.convert is invoked and before the
\* working directory is changed, and no timecode is divided by a zero
\* duration.  segment never compares the duration with a threshold, so this
\* does not hold.
C11_SegmentRejectsShortSource ==
    (op = "segment" /\ FLess(info.duration, MinDuration)) =>
        /\ engineCalls = <<>>
        /\ cwd = cwd0
        /\ err.exc # "ZeroDivisionError"

SinglePassConvert == op = "convert" /\ ~Truthy(twopass)

Percent(y) == FDiv(FMul(Frac(100, 1), y.timecode), info.duration)

\* C13: every progress value of the segment workflow is the integer
\* floor(100 * timecode / duration); when the Engine's timecodes lie in
\* [0, duration] and do not decrease, the values are integers in [0, 100]
\* and do not decrease.
C13_SegmentProgressIsFloor ==
    op = "segment" =>
        /\ yielded # <<>> => info.duration # FZero
        /\ \A i \in DOMAIN yielded :
                /\ yielded[i].value.d = 1
                /\ FLeq(yielded[i].value, Percent(yielded[i]))
                /\ FLess(Percent(yielded[i]), FAdd(yielded[i].value, FOne))
        /\ TimecodesInRange =>
                /\ \A i \in DOMAIN yielded :
                        yielded[i].value.n \in 0..100
                /\ \A i, j \in DOMAIN yielded :
                        i < j => yielded[i].value.n <= yielded[j].value.n

\* a segment run has yielded 66 for a timecode at two thirds of the
\* duration and then 100 for a timecode at its end
C13_SegmentYieldedFloor ==
    /\ op = "segment"
    /\ Len(yielded) = 2
    /\ yielded[1].timecode = FMul(info.duration, Frac(2, 3))
    /\ yielded[1].value = Frac(66, 1)
    /\ yielded[2].timecode = info.duration
    /\ yielded[2].value = Frac(100, 1)

----------------------------------------------------------------------------
(* The codec compilers.                                                    *)

\* a compiler was called on its own and returned a flag list
CompiledFlags(kind) ==
    op = "compile" /\ pc = "returned" /\ request.kind = kind

HasFlag(list, flag) == \E i \in 1..Len(list) : list[i] = flag

\* the token that follows the first occurrence of flag
FlagValue(list, flag) ==
    list[1 + CHOOSE i \in 1..Len(list) :
                list[i] = flag /\ \A j \in 1..(i - 1) : list[j] # flag]

\* the numeric options with the flag, the suffix and the range of each
NumericOptions(kind) ==
    IF kind = "audio"
    THEN {[k |-> "channels", flag |-> "-ac", suffix |-> "", lo |-> 1, hi |-> 12],
          [k |-> "bitrate", flag |-> "-ab", suffix |-> "k", lo |-> 8, hi |-> 512],
          [k |-> "samplerate", flag |-> "-ar", suffix |-> "",
           lo |-> 1000, hi |-> 50000]}
    ELSE {[k |-> "fps", flag |-> "-r", suffix |-> "", lo |-> 1, hi |-> 120],
          [k |-> "keyframe_interval", flag |-> "-g", suffix |-> "",
           lo |-> 1, hi |-> 1500],
          [k |-> "bitrate", flag |-> "-vb", suffix |-> "k",
           lo |-> 16, hi |-> 15000],
          [k |-> "max_bitrate", flag |-> "-maxrate", suffix |-> "k",
           lo |-> 16, hi |-> 15000],
          [k |-> "max_bitrate", flag |-> "-bufsize", suffix |-> "k",
           lo |-> 16, hi |-> 15000]}

\* int(v) of a number: an int is itself, a float is truncated
IntOf(v) == IF v.t = "float" THEN Trunc(NumOf(v)) ELSE v.n

\* the request gives a width or a height outside 16..4000 or 16..3000
WidthOutside(opt) ==
    Has(opt, "width") /\ (opt["width"].n < 16 \/ opt["width"].n > 4000)
HeightOutside(opt) ==
    Has(opt, "height") /\ (opt["height"].n < 16 \/ opt["height"].n > 3000)

\* the request without the dimensions that are out of range
WithoutOutside(opt) ==
    [k \in DOMAIN opt \ ((IF WidthOutside(opt) THEN {"width"} ELSE {})
                         \cup (IF HeightOutside(opt) THEN {"height"} ELSE {}))
        |-> opt[k]]

----------------------------------------------------------------------------
(* The geometry engine.                                                    *)

\* the dimensions the video compiler hands to the geometry engine: the
\* request's when in range, made even; 0 when absent or out of range
GivenWidth(opt) ==
    IF Has(opt, "width") /\ ~WidthOutside(opt)
    THEN opt["width"].n - (opt["width"].n % 2) ELSE 0
GivenHeight(opt) ==
    IF Has(opt, "height") /\ ~HeightOutside(opt)
    THEN opt["height"].n - (opt["height"].n % 2) ELSE 0
SourceWidth(opt) == IF Has(opt, "src_width") THEN opt["src_width"].n ELSE 0
SourceHeight(opt) == IF Has(opt, "src_height") THEN opt["src_height"].n ELSE 0

\* a video compiler was called with known source dimensions, both target
\* dimensions and the given mode, and floor(aspect * h) is not w
Mismatch(mode) ==
    /\ op = "compile" /\ pc # "idle" /\ request.kind = "video"
    /\ Has(request.opt, "mode") /\ request.opt["mode"] = StrV(mode)
    /\ SourceWidth(request.opt) > 0 /\ SourceHeight(request.opt) > 0
    /\ GivenWidth(request.opt) > 0 /\ GivenHeight(request.opt) > 0
    /\ (GivenHeight(request.opt) * SourceWidth(request.opt))
            \div SourceHeight(request.opt) # GivenWidth(request.opt)

\* the size and the filter the geometry engine is to return in crop or pad
\* mode: the box with the source's aspect that has the target's width when
\* `onWidth`, else the target's height
ExpectedBox(mode, onWidth) ==
    LET w == GivenWidth(request.opt)
        h == GivenHeight(request.opt)
        sw == SourceWidth(request.opt)
        sh == SourceHeight(request.opt)
        h0 == (w * sh) \div sw
        w0 == (h * sw) \div sh
        d == IF onWidth THEN (IF mode = "crop" THEN h0 - h ELSE h - h0) \div 2
             ELSE (IF mode = "crop" THEN w0 - w ELSE w - w0) \div 2
    IN  [w |-> IF onWidth THEN w ELSE w0,
         h |-> IF onWidth THEN h0 ELSE h,
         filter |-> mode \o "=" \o ToString(w) \o ":" \o ToString(h) \o ":"
                    \o (IF onWidth THEN "0:" \o ToString(d)
                        ELSE ToString(d) \o ":0")]

\* the target is relatively wider than the source: w / h > sw / sh
TargetWider ==
    GivenWidth(request.opt) * SourceHeight(request.opt)
        > SourceWidth(request.opt) * GivenHeight(request.opt)

\* the compiled flags carry the box as the size (a size is emitted when
\* neither dimension is 0) and, in a codec without a filter of its own, the
\* filter as the one -vf value
BoxCompiled(box) ==
    /\ pc = "returned"
    /\ HasFlag(compiled[1].val, "-s") <=> (box.w > 0 /\ box.h > 0)
    /\ HasFlag(compiled[1].val, "-s") =>
            FlagValue(compiled[1].val, "-s")
                = ToString(box.w) \o "x" \o ToString(box.h)
    /\ request.codec.cls = "TheoraCodec" =>
            /\ HasFlag(compiled[1].val, "-vf")
            /\ FlagValue(compiled[1].val, "-vf") = box.filter

\* C15: in crop mode with a known source and a target (w, h) that does not
\* match the source aspect, the result is the box that covers the target:
\* (w, floor(w / aspect)) with crop=w:h:0:floor((h0 - h) / 2) when the target
\* is relatively wider than the source, else (floor(h * aspect), h) with
\* crop=w:h:floor((w0 - w) / 2):0; the cropped axis is at least the target's.
\* The engine's assertion h0 > h fails on some such targets (see C24), and
\* then there is no result.
C15_CropReturnsCoveringBox ==
    Mismatch("crop") =>
        /\ BoxCompiled(ExpectedBox("crop", TargetWider))
        /\ ExpectedBox("crop", TargetWider).w >= GivenWidth(request.opt)
        /\ ExpectedBox("crop", TargetWider).h >= GivenHeight(request.opt)

\* C16: in pad mode with a known source and a target (w, h) that does not
\* match the source aspect, the result is the box that fits inside the
\* target: on the padded axis it is at most the target's, on the other axis
\* it is the target's, and the filter pads to w:h with the offset
\* floor((target - returned) / 2) on the padded axis and 0 on the other.
C16_PadReturnsFittingBox ==
    Mismatch("pad") =>
        /\ BoxCompiled(ExpectedBox("pad", ~TargetWider))
        /\ ExpectedBox("pad", ~TargetWider).w <= GivenWidth(request.opt)
        /\ ExpectedBox("pad", ~TargetWider).h <= GivenHeight(request.opt)
        /\ \/ ExpectedBox("pad", ~TargetWider).w = GivenWidth(request.opt)
           \/ ExpectedBox("pad", ~TargetWider).h = GivenHeight(request.opt)

\* the theora compiler padded 640x400 into 320x240: size 320x200 and the
\* filter pad=320:240:0:20
C16_PaddedTopAndBottom ==
    /\ Mismatch("pad")
    /\ pc = "returned"
    /\ request.codec.cls = "TheoraCodec"
    /\ SourceWidth(request.opt) = 640 /\ SourceHeight(request.opt) = 400
    /\ GivenWidth(request.opt) = 320 /\ GivenHeight(request.opt) = 240
    /\ FlagValue(compiled[1].val, "-s") = "320x200"
    /\ FlagValue(compiled[1].val, "-vf") = "pad=320:240:0:20"

\* the sizes a compiled video request can carry: each dimension is the
\* given one or the one derived from the other by the source's aspect
SizeCandidates ==
    LET w == GivenWidth(request.opt)
        h == GivenHeight(request.opt)
        sw == SourceWidth(request.opt)
        sh == SourceHeight(request.opt)
    IN  ({w} \cup (IF sh > 0 THEN {(h * sw) \div sh} ELSE {}))
        \X ({h} \cup (IF sw > 0 THEN {(w * sh) \div sw} ELSE {}))

\* the size of the -s flag, as a pair of numbers
EmittedSize ==
    CHOOSE wh \in SizeCandidates :
        FlagValue(compiled[1].val, "-s")
            = ToString(wh[1]) \o "x" \o ToString(wh[2])

\* C17: the width and the height a validating video codec emits in -s WxH
\* are both even, in every mode and also when one of them is derived from
\* the source aspect.  Only the requested dimensions are made even; a
\* derived one is what int() gives.
C17_EmittedSizeIsEven ==
    (CompiledFlags("video") /\ HasFlag(compiled[1].val, "-s")) =>
        /\ \E wh \in SizeCandidates :
                FlagValue(compiled[1].val, "-s")
                    = ToString(wh[1]) \o "x" \o ToString(wh[2])
        /\ EmittedSize[1] % 2 = 0
        /\ EmittedSize[2] % 2 = 0

\* a video compiler was called with known source dimensions and exactly one
\* target dimension
OneGiven ==
    /\ op = "compile" /\ pc # "idle" /\ request.kind = "video"
    /\ SourceWidth(request.opt) > 0 /\ SourceHeight(request.opt) > 0
    /\ (GivenWidth(request.opt) > 0) # (GivenHeight(request.opt) > 0)

\* the sizes whose missing dimension is within 1 of the rounded quotient:
\* round(w / aspect) for a height, round(h * aspect) for a width
DerivedSizes ==
    LET w == GivenWidth(request.opt)
        h == GivenHeight(request.opt)
        sw == SourceWidth(request.opt)
        sh == SourceHeight(request.opt)
    IN  IF w > 0
        THEN {<<w, Round(Frac(w * sh, sw)) + e>> : e \in {-1, 0, 1}}
        ELSE {<<Round(Frac(h * sw, sh)) + e, h>> : e \in {-1, 0, 1}}

\* the dimension int() derives from the given one
DerivedDimension ==
    IF GivenWidth(request.opt) > 0
    THEN (GivenWidth(request.opt) * SourceHeight(request.opt))
            \div SourceWidth(request.opt)
    ELSE (GivenHeight(request.opt) * SourceWidth(request.opt))
            \div SourceHeight(request.opt)

\* the classes whose own hook emits a -vf: the MPEG aspect filter and the
\* VAAPI upload filter
OwnFilterClasses == MpegCodecClasses \cup {"VaapiH264Codec"}

\* C18 as stated: with a known source and exactly one target dimension the
\* other is derived within 1 of the rounded quotient, and the compiled flags
\* contain the size flag for (w, h) and no -vf and no -aspect.
C18_OneDimensionDerived ==
    OneGiven =>
        /\ pc = "returned"
        /\ HasFlag(compiled[1].val, "-s")
        /\ \E wh \in DerivedSizes :
                FlagValue(compiled[1].val, "-s")
                    = ToString(wh[1]) \o "x" \o ToString(wh[2])
        /\ ~HasFlag(compiled[1].val, "-vf")
        /\ ~HasFlag(compiled[1].val, "-aspect")

\* C18, amended: the size flag is there when the derived dimension is not 0,
\* and the only -vf is the one the codec's own hook emits (mpeg1, mpeg2,
\* h264_vaapi): the geometry engine contributes no crop or pad filter.
C18_OneDimensionDerivedNoCropOrPad ==
    OneGiven =>
        /\ pc = "returned"
        /\ HasFlag(compiled[1].val, "-s") <=> DerivedDimension > 0
        /\ HasFlag(compiled[1].val, "-s") =>
                \E wh \in DerivedSizes :
                    FlagValue(compiled[1].val, "-s")
                        = ToString(wh[1]) \o "x" \o ToString(wh[2])
        /\ ~HasFlag(compiled[1].val, "-aspect")
        /\ request.codec.cls \notin OwnFilterClasses =>
                ~HasFlag(compiled[1].val, "-vf")
        /\ (request.codec.cls \in MpegCodecClasses
                /\ HasFlag(compiled[1].val, "-vf")) =>
                \E wh \in DerivedSizes :
                    FlagValue(compiled[1].val, "-vf")
                        = "aspect=" \o ToString(wh[1]) \o ":" \o ToString(wh[2])
        /\ request.codec.cls = "VaapiH264Codec" =>
                FlagValue(compiled[1].val, "-vf") = "format=nv12|vaapi,hwupload"

\* the theora compiler derived the height 240 from the width 320 on a
\* 640x480 source
C18_HeightDerivedFromWidth ==
    /\ OneGiven
    /\ pc = "returned"
    /\ request.codec.cls = "TheoraCodec"
    /\ SourceWidth(request.opt) = 640 /\ SourceHeight(request.opt) = 480
    /\ GivenWidth(request.opt) = 320
    /\ compiled[1].val
            = <<"-vcodec", "libtheora", "-pix_fmt", "yuv420p", "-s", "320x240">>

----------------------------------------------------------------------------
(* The format compilers and the selector flags.                            *)

\* C19: the mp4 and the mov format compiled from a request that names them
\* with the fast-start option true emit -movflags faststart after the '-f <engine name>' pair, and no movflag
\* when the option is false or absent.  MovFormat has no hook for the option,
\* and Mp4Format's hook result never reaches the flag list.
C19_FastStartEmitsMovflag ==
    (/\ op = "compile" /\ pc # "idle" /\ request.kind = "format"
     /\ request.codec.format_name \in {"mp4", "mov"}
     /\ Has(request.opt, "format")
     /\ request.opt["format"] = StrV(request.codec.format_name)) =>
        /\ pc = "returned"
        /\ compiled[1].val =
                <<"-f", request.codec.format_name>>
                \o (IF Has(request.opt, "faststart")
                       /\ request.opt["faststart"] = BoolV(TRUE)
                    THEN <<"-movflags", "faststart">> ELSE <<>>)

\* the flag that selects a codec of a kind, or the format
Selector(kind) ==
    CASE kind = "audio" -> "-acodec"
      [] kind = "video" -> "-vcodec"
      [] kind = "subtitle" -> "-scodec"
      [] kind = "format" -> "-f"

\* the engine's name of each public format name
EngineFormatName ==
    [ogg |-> "ogg", avi |-> "avi", mkv |-> "matroska", webm |-> "webm",
     flv |-> "flv", mov |-> "mov", mp4 |-> "mp4", mpg |-> "mpegts",
     mp3 |-> "mp3", wmv |-> "msmpeg4"]

\* the engine's name of each public codec name, by kind; the copy codec's is
\* the engine's keyword copy
EngineCodecName ==
    [audio |-> [copy |-> "copy", vorbis |-> "libvorbis", aac |-> "aac",
                libfdk_aac |-> "libfdk_aac", ac3 |-> "ac3", flac |-> "flac",
                dts |-> "dts", mp3 |-> "libmp3lame", mp2 |-> "mp2",
                wma |-> "wmav2"],
     video |-> [copy |-> "copy", theora |-> "libtheora", h264 |-> "libx264",
                h264_vaapi |-> "h264_vaapi", divx |-> "mpeg4",
                vp8 |-> "libvpx", vp9 |-> "libvpx-vp9", h263 |-> "h263",
                flv |-> "flv", mpeg1 |-> "mpeg1video", mpeg2 |-> "mpeg2video",
                wmv |-> "msmpeg4"],
     subtitle |-> [copy |-> "copy", mov_text |-> "mov_text", ass |-> "ass",
                   subrip |-> "subrip", dvbsub |-> "dvbsub",
                   dvdsub |-> "dvdsub"]]

\* the flag list begins with the kind's selector flag and the engine's name
\* of the descriptor the compiler was called for
BeginsWithEngineName ==
    /\ Len(compiled[1].val) >= 2
    /\ compiled[1].val[1] = Selector(request.kind)
    /\ IF request.kind = "format"
       THEN compiled[1].val[2] = EngineFormatName[request.codec.format_name]
       ELSE /\ request.codec.codec_name.s
                    \in DOMAIN EngineCodecName[request.kind]
            /\ compiled[1].val[2]
                    = EngineCodecName[request.kind][request.codec.codec_name.s]

\* a compiler was called with a request that names its descriptor
NamedCompiled ==
    /\ op = "compile" /\ pc # "idle"
    /\ request.kind \in {"audio", "video", "subtitle", "format"}
    /\ request.kind = "format" =>
            /\ Has(request.opt, "format")
            /\ request.opt["format"] = StrV(request.codec.format_name)
    /\ request.kind # "format" =>
            /\ Has(request.opt, "codec")
            /\ request.opt["codec"] = request.codec.codec_name

\* C20 as stated: for every registered codec of every kind and every
\* registered format, the flags compiled for a request that names it begin
\* with the kind's selector flag and the engine's name.
C20_SelectorAndEngineName ==
    (NamedCompiled /\ pc = "returned") =>
        BeginsWithEngineName

\* C20, amended: that holds for every format and every codec but the null
\* codec of each kind, which compiles to the kind's single disable flag; the
\* copy codec compiles to exactly the selector flag and 'copy'.
C20_SelectorAndEngineNameUnlessNull ==
    (NamedCompiled /\ pc = "returned") =>
        IF request.kind # "format" /\ request.codec.codec_name = NoneV
        THEN compiled[1].val = DisableFlag(request.kind)
        ELSE /\ BeginsWithEngineName
             /\ (request.kind # "format"
                    /\ request.codec.codec_name = StrV("copy")) =>
                        compiled[1].val = CopyPair(request.kind)

\* the mkv format was compiled to -f matroska
C20_MkvCompiled ==
    /\ NamedCompiled
    /\ pc = "returned"
    /\ request.kind = "format"
    /\ request.codec.format_name = "mkv"
    /\ compiled[1].val = <<"-f", "matroska">>

----------------------------------------------------------------------------
(* The declared name, the option filter and the registration tables.       *)

\* the null and the copy codec of a kind, whose parse_options overrides the
\* base class's without calling its check
SkipsNameCheck ==
    /\ request.kind # "format"
    /\ request.codec.codec_name \in {NoneV, StrV("copy")}

\* a compiler was called with a request that does not name its descriptor
MisnamedCompiled ==
    /\ op = "compile" /\ pc # "idle"
    /\ request.kind \in {"audio", "video", "subtitle", "format"}
    /\ ~NamedCompiled

\* C21: a validating codec or format compiled from options whose 'codec'
\* (resp. 'format') key is missing or differs from the descriptor's public
\* name raises ValueError and produces no flags; the null and the copy codec
\* of each kind are the only descriptors that skip the check, and return their
\* fixed flags whatever the options name.
C21_MisnamedRaisesValueError ==
    MisnamedCompiled =>
        IF SkipsNameCheck
        THEN /\ pc = "returned"
             /\ compiled[1].val
                    = (IF request.codec.codec_name = NoneV
                       THEN DisableFlag(request.kind)
                       ELSE CopyPair(request.kind))
        ELSE /\ pc = "failed"
             /\ err.exc = "ValueError"
             /\ compiled[1].val = <<>>

\* the vorbis codec was compiled from a request that names the mp3 codec
C21_VorbisCalledAsMp3 ==
    /\ MisnamedCompiled
    /\ request.kind = "audio"
    /\ request.codec.cls = "VorbisCodec"
    /\ request.opt = [codec |-> StrV("mp3")]
    /\ pc = "failed"
    /\ err.exc = "ValueError"

\* safe_options was called and is over
SafeOptionsCalled ==
    op = "compile" /\ pc # "idle" /\ request.kind = "safe_options"

\* the keys of the raw options that the schema knows and whose value the
\* schema type accepts
Coercible(schema, raw) ==
    {k \in DOMAIN raw :
        k \in DOMAIN schema /\ ~Raised(Coerce(schema[k], raw[k]))}

\* C22: safe_options returns, without raising, a mapping whose keys are
\* exactly the keys of the raw options that are in the descriptor's schema
\* and whose value coerces to the schema type, each mapped to the coerced
\* value; unknown keys and keys whose coercion fails are dropped, and the raw
\* options are never changed.
C22_SafeOptionsFiltersAndCoerces ==
    /\ [](SafeOptionsCalled =>
            /\ pc = "returned"
            /\ err = NoErr
            /\ DOMAIN compiled[1].val
                    = Coercible(request.codec.encoder_options, request.opt)
            /\ \A k \in DOMAIN compiled[1].val :
                    compiled[1].val[k]
                        = Coerce(request.codec.encoder_options[k],
                                 request.opt[k]).val)
    /\ [][request.kind = "safe_options" => request' = request]_vars

\* the test's call with an unknown key and a word for an int: everything is
\* dropped
C22_WordForIntDropped ==
    /\ SafeOptionsCalled
    /\ request.codec = TestCodec
    /\ request.opt = [baz |-> IntV(1), quux |-> IntV(1), foo |-> StrV("w00t")]
    /\ compiled[1].val = EmptyDict

\* the first class of a list that carries a name
FirstRegistered(list, name) ==
    list[CHOOSE i \in DOMAIN list :
            /\ list[i].codec_name = name
            /\ \A j \in 1..(i - 1) : list[j].codec_name # name]

\* C23: a second class that claims a public name already bound to a concrete
\* class of its kind is rejected with a duplicate-descriptor error, so no
\* registration list ever holds two classes with one concrete name; and the
\* table a Converter builds maps each public name to the first class
\* registered under it.  Neither metaclass looks at the names in its list and
\* none raises, and Converter.__init__ lets a later class overwrite an
\* earlier one.
C23_DuplicateRejectedFirstWins ==
    op = "import" =>
        /\ \A kind \in Kinds : \A i, j \in DOMAIN registered[kind] :
                (/\ i < j
                 /\ Truthy(registered[kind][i].codec_name)
                 /\ registered[kind][i].codec_name
                        = registered[kind][j].codec_name)
                    => err.exc = "DuplicateDescriptorError"
        /\ pc = "constructed" =>
                \A kind \in Kinds : \A name \in DOMAIN tables[kind] :
                    tables[kind][name]
                        = FirstRegistered(registered[kind], name).cls

----------------------------------------------------------------------------
(* The geometry engine's assertions, filters and pixel formats.            *)

\* a video compiler was called with a request that names it and gives
\* positive source dimensions, both target dimensions even and in range, and
\* one of the three modes
InRangeGeometry ==
    /\ NamedCompiled /\ request.kind = "video"
    /\ SourceWidth(request.opt) > 0 /\ SourceHeight(request.opt) > 0
    /\ Has(request.opt, "width") /\ Has(request.opt, "height")
    /\ GivenWidth(request.opt) = request.opt["width"].n
    /\ GivenHeight(request.opt) = request.opt["height"].n
    /\ Has(request.opt, "mode")
    /\ request.opt["mode"] \in {StrV("stretch"), StrV("crop"), StrV("pad")}

\* C24: with positive source dimensions, even target dimensions in range and
\* a mode of stretch, crop or pad the geometry engine returns a result and no
\* assertion fails; in the crop branch taken when the target is relatively
\* wider than the source, floor(w / aspect) is strictly greater than h.  The
\* floor can equal h (18x16 cropped from 11x10 gives 16), and `assert h0 > h`
\* then fails.
C24_GeometryNeverFails ==
    InRangeGeometry =>
        /\ pc = "returned"
        /\ err.exc # "AssertionError"
        /\ (Mismatch("crop") /\ TargetWider) =>
                (GivenWidth(request.opt) * SourceHeight(request.opt))
                    \div SourceWidth(request.opt) > GivenHeight(request.opt)

----------------------------------------------------------------------------
(* The generators are driven by the caller's pulls.                        *)

RECURSIVE TimecodesRead(_)
\* the timecodes the Engine has delivered over all its invocations
TimecodesRead(calls) ==
    IF calls = <<>> THEN 0
    ELSE calls[Len(calls)].delivered + TimecodesRead(SubSeq(calls, 1, Len(calls) - 1))

\* C25: convert and segment are lazily driven.  The call itself checks no
\* path, probes nothing, validates nothing, invokes no Engine.convert and
\* raises no error, whatever the request and the source are: it only makes
\* the generator.  Checks, compilation and engine interaction happen in a
\* pull, and one pull reads at most one Engine timecode and yields at most
\* one element.
C25_LazilyDriven ==
    /\ []((op \in {"convert", "segment"} /\ pc = "created") =>
            /\ compiled = <<>>
            /\ engineCalls = <<>>
            /\ yielded = <<>>
            /\ err = NoErr
            /\ heap = snapshot
            /\ cwd = cwd0)
    /\ [][(pc = "idle" /\ op' \in {"convert", "segment"}) => pc' = "created"]_vars
    /\ [][/\ Len(yielded') <= Len(yielded) + 1
          /\ TimecodesRead(engineCalls') <= TimecodesRead(engineCalls) + 1]_vars

\* a convert of a missing source was called, and nothing has failed yet
C25_CreatedWithMissingSource ==
    /\ op = "convert"
    /\ pc = "created"
    /\ ~pathExists
    /\ err = NoErr

\* how often the flag occurs in the list
Occurrences(list, flag) == Cardinality({i \in DOMAIN list : list[i] = flag})

\* C26: the flags a registered video codec compiles from any request contain
\* at most one -vf, so that the crop or pad (and aspect) filter of the
\* geometry engine is not shadowed by a -vf of the codec's own hook.  The
\* VAAPI codec's hook always appends its own -vf pair, after the geometry's.
C26_AtMostOneFilterFlag ==
    CompiledFlags("video") => Occurrences(compiled[1].val, "-vf") <= 1

\* C27: the flags of a validating video codec contain exactly one
\* '-pix_fmt <value>' pair, whose value is the requested pix_fmt when the
\* supported list has it and yuv420p otherwise, so that no pixel format
\* outside the list is emitted.  The compiler deletes the requested format
\* when the list HAS it: a supported format falls back to yuv420p and an
\* unsupported one is emitted.
C27_PixFmtSupportedOrDefault ==
    (CompiledFlags("video")
     /\ request.codec.codec_name \notin {NoneV, StrV("copy")}) =>
        /\ Occurrences(compiled[1].val, "-pix_fmt") = 1
        /\ FlagValue(compiled[1].val, "-pix_fmt")
                = (IF Has(request.opt, "pix_fmt")
                      /\ PyStr(request.opt["pix_fmt"]) \in formats_supported
                   THEN PyStr(request.opt["pix_fmt"]) ELSE "yuv420p")
        /\ FlagValue(compiled[1].val, "-pix_fmt") \in formats_supported

\* a video compiler was called with a geometry request that names it
GeometryCompiled ==
    /\ NamedCompiled /\ request.kind = "video"
    /\ request.codec.cls \in GeometryCodecs

\* the source dimensions are unknown: one is absent or zero
SourceUnknown ==
    SourceWidth(request.opt) = 0 \/ SourceHeight(request.opt) = 0

\* both target dimensions are given and floor(aspect * h) is w
AspectMatches ==
    /\ ~SourceUnknown
    /\ GivenWidth(request.opt) > 0 /\ GivenHeight(request.opt) > 0
    /\ (GivenHeight(request.opt) * SourceWidth(request.opt))
            \div SourceHeight(request.opt) = GivenWidth(request.opt)

\* the request's mode is stretch, which it also is when it gives none
StretchMode ==
    ~Has(request.opt, "mode") \/ request.opt["mode"] = StrV("stretch")

\* the compiled flags show the target dimensions as they were given and no
\* filter of the geometry engine: the size flag is the target's when both
\* dimensions are given and absent otherwise, and a -vf is the codec's own
TargetUnchanged ==
    /\ pc = "returned"
    /\ HasFlag(compiled[1].val, "-s")
            <=> (GivenWidth(request.opt) > 0 /\ GivenHeight(request.opt) > 0)
    /\ HasFlag(compiled[1].val, "-s") =>
            FlagValue(compiled[1].val, "-s")
                = ToString(GivenWidth(request.opt)) \o "x"
                    \o ToString(GivenHeight(request.opt))
    /\ request.codec.cls \notin OwnFilterClasses =>
            ~HasFlag(compiled[1].val, "-vf")
    /\ request.codec.cls \in MpegCodecClasses =>
            /\ HasFlag(compiled[1].val, "-vf") <=> HasFlag(compiled[1].val, "-s")
            /\ HasFlag(compiled[1].val, "-vf") =>
                    FlagValue(compiled[1].val, "-vf")
                        = "aspect=" \o ToString(GivenWidth(request.opt)) \o ":"
                            \o ToString(GivenHeight(request.opt))
    /\ request.codec.cls = "VaapiH264Codec" =>
            Occurrences(compiled[1].val, "-vf") = 1

\* a mode other than stretch, crop and pad compiles as stretch does
UnknownModeIsStretch ==
    (GeometryCompiled /\ Has(request.opt, "mode")
     /\ request.opt["mode"] \notin {StrV("stretch"), StrV("crop"), StrV("pad")})
        => compiled[1] = VideoCodec_parse_options(request.codec,
                            Put(request.opt, "mode", StrV("stretch")))

\* C28 as stated: the geometry engine returns the target dimensions unchanged
\* with no filter whenever the source dimensions are unknown, or both target
\* dimensions are given and floor(aspect * h) equals w, or the mode is
\* stretch; and a mode other than stretch, crop and pad is treated as stretch.
C28_UnchangedWhenNothingToCorrect ==
    /\ (GeometryCompiled /\ (SourceUnknown \/ AspectMatches \/ StretchMode))
            => TargetUnchanged
    /\ UnknownModeIsStretch

\* C28, with the stretch case limited to requests that give both target
\* dimensions or none: with a known source and exactly one target dimension
\* the engine derives the other one before it looks at the mode.
C28_UnchangedUnlessOneDimension ==
    /\ (GeometryCompiled
        /\ (SourceUnknown \/ AspectMatches \/ (StretchMode /\ ~OneGiven)))
            => TargetUnchanged
    /\ UnknownModeIsStretch

\* 320x240 was asked of a 640x400 source in the mode 'fit', and compiled as
\* it is
C28_FitCompiledAsStretch ==
    /\ GeometryCompiled
    /\ request.codec.cls = "TheoraCodec"
    /\ Has(request.opt, "mode") /\ request.opt["mode"] = StrV("fit")
    /\ SourceWidth(request.opt) = 640 /\ SourceHeight(request.opt) = 400
    /\ GivenWidth(request.opt) = 320 /\ GivenHeight(request.opt) = 240
    /\ compiled[1].val
            = <<"-vcodec", "libtheora", "-pix_fmt", "yuv420p", "-s", "320x240",
                "-aspect", "320:240">>

\* an MPEG video codec compiled a request that names it
MpegCompiled ==
    /\ NamedCompiled /\ pc = "returned" /\ request.kind = "video"
    /\ request.codec.cls \in MpegCodecClasses

\* the crop or pad filter the geometry engine returns for the request, ""
\* when it returns none
GeometryFilter ==
    IF Mismatch("crop") THEN ExpectedBox("crop", TargetWider).filter
    ELSE IF Mismatch("pad") THEN ExpectedBox("pad", ~TargetWider).filter
    ELSE ""

\* C29: the flags of the mpeg1 and the mpeg2 codec carry at most one -vf.
\* When both output dimensions are resolved (the size flag is emitted), its
\* value starts with 'aspect=<w>:<h>' of the dimensions the geometry engine
\* returned, which are the size flag's, and a crop or pad filter follows it
\* after a comma; without a crop or pad filter the value is the aspect filter
\* alone.  When a dimension is unresolved (no size flag) there is no aspect
\* filter: the -vf is then the crop or pad filter alone, or absent.
C29_MpegAspectFilterFirst ==
    MpegCompiled =>
        /\ Occurrences(compiled[1].val, "-vf") <= 1
        /\ HasFlag(compiled[1].val, "-s") =>
                /\ HasFlag(compiled[1].val, "-vf")
                /\ FlagValue(compiled[1].val, "-vf")
                        = "aspect=" \o ToString(EmittedSize[1]) \o ":"
                            \o ToString(EmittedSize[2])
                            \o (IF GeometryFilter = "" THEN ""
                                ELSE "," \o GeometryFilter)
        /\ ~HasFlag(compiled[1].val, "-s") =>
                IF GeometryFilter = "" THEN ~HasFlag(compiled[1].val, "-vf")
                ELSE /\ HasFlag(compiled[1].val, "-vf")
                     /\ FlagValue(compiled[1].val, "-vf") = GeometryFilter

\* mpeg2 compiled 320x240 cropped from a 640x400 source
C29_Mpeg2Cropped ==
    /\ MpegCompiled
    /\ request.codec.cls = "Mpeg2Codec"
    /\ Mismatch("crop")
    /\ FlagValue(compiled[1].val, "-s") = "384x240"
    /\ FlagValue(compiled[1].val, "-vf") = "aspect=384:240,crop=320:240:32:0"

----------------------------------------------------------------------------
(* The subtitle compilers.                                                 *)

\* C30: the flags a subtitle codec compiles depend only on the codec: a
\* request that names it compiles, whatever language, forced and default it
\* gives (in range or out of range), to the flags of the request that gives
\* none of them, which are -sn for the null codec and '-scodec <engine name>'
\* for every other one; the validated options produce no engine flag.
C30_SubtitleFlagsDependOnCodecOnly ==
    (NamedCompiled /\ request.kind = "subtitle") =>
        /\ pc = "returned"
        /\ compiled[1]
                = SubtitleCodec_parse_options(request.codec, Named(request.codec))
        /\ compiled[1].val
                = (IF request.codec.codec_name = NoneV THEN <<"-sn">>
                   ELSE <<"-scodec",
                          EngineCodecName["subtitle"][request.codec.codec_name.s]>>)

\* the SubRip codec compiled a request with a language, a forced flag out of
\* range and a default flag
C30_SubRipWithOptions ==
    /\ NamedCompiled /\ pc = "returned" /\ request.kind = "subtitle"
    /\ request.opt = [codec |-> StrV("subrip"), language |-> StrV("eng"),
                      forced |-> IntV(2), default |-> IntV(1)]
    /\ compiled[1].val = <<"-scodec", "subrip">>

====
